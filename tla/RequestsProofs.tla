--------------------------- MODULE RequestsProofs ---------------------------
(***************************************************************************)
(* Proofs about Requests, for any sizes and lengths: that an Event is what *)
(* the node sent, with any number of readers and datagrams, that the       *)
(* copies of the non-blocking library fill its buffers but for nlmsg_seq,  *)
(* and that the node reads what a caller of either wrapper asked for.      *)
(***************************************************************************)
EXTENDS Requests, SequenceTheorems, FiniteSetTheorems, TLAPS

(***************************************************************************)
(* Datagrams                                                               *)
(***************************************************************************)

LEMMA ConcatFacts ==
  ASSUME NEW B, NEW s \in Seq(B), NEW t \in Seq(B)
  PROVE  /\ s \o t \in Seq(B) /\ Len(s \o t) = Len(s) + Len(t)
         /\ \A i \in 1..Len(s) : (s \o t)[i] = s[i]
         /\ \A i \in 1..Len(t) : (s \o t)[Len(s) + i] = t[i]
OBVIOUS

Glued(h, ty, n, id, data) == h \o <<ty>> \o <<n>> \o id \o data

\* Where the pieces of a datagram are.
LEMMA Pieces ==
  ASSUME NEW B, NEW h \in Seq(B), NEW ty \in B, NEW n \in B, NEW id \in Seq(B), NEW data \in Seq(B)
  PROVE  /\ Glued(h, ty, n, id, data) \in Seq(B)
         /\ Len(Glued(h, ty, n, id, data)) = Len(h) + 2 + Len(id) + Len(data)
         /\ Glued(h, ty, n, id, data)[Len(h) + 1] = ty
         /\ Glued(h, ty, n, id, data)[Len(h) + 2] = n
         /\ \A i \in 1..Len(id) : Glued(h, ty, n, id, data)[Len(h) + 2 + i] = id[i]
         /\ \A i \in 1..Len(data) : Glued(h, ty, n, id, data)[Len(h) + 2 + Len(id) + i] = data[i]
<1> DEFINE s == h \o <<ty>>
           u == s \o <<n>>
           v == u \o id
           bytes == Glued(h, ty, n, id, data)
<1>0. bytes = v \o data
  BY DEF Glued
<1>1. /\ s \in Seq(B) /\ Len(s) = Len(h) + 1 /\ s[Len(h) + 1] = ty
  OBVIOUS
<1> HIDE DEF s
<1>2. /\ u \in Seq(B) /\ Len(u) = Len(h) + 2
      /\ u[Len(h) + 1] = ty /\ u[Len(h) + 2] = n
  BY <1>1
<1> HIDE DEF u
<1>3. /\ v \in Seq(B) /\ Len(v) = Len(u) + Len(id)
      /\ \A i \in 1..Len(u) : v[i] = u[i]
      /\ \A i \in 1..Len(id) : v[Len(u) + i] = id[i]
  <2>1. u \in Seq(B) /\ id \in Seq(B)
    BY <1>2
  <2>2. /\ u \o id \in Seq(B) /\ Len(u \o id) = Len(u) + Len(id)
        /\ \A i \in 1..Len(u) : (u \o id)[i] = u[i]
        /\ \A i \in 1..Len(id) : (u \o id)[Len(u) + i] = id[i]
    BY <2>1, ConcatFacts
  <2> QED
    BY <2>2
<1> HIDE DEF v
<1>4. /\ bytes \in Seq(B) /\ Len(bytes) = Len(v) + Len(data)
      /\ \A i \in 1..Len(v) : bytes[i] = v[i]
      /\ \A i \in 1..Len(data) : bytes[Len(v) + i] = data[i]
  <2>1. v \in Seq(B) /\ data \in Seq(B)
    BY <1>3
  <2>2. /\ v \o data \in Seq(B) /\ Len(v \o data) = Len(v) + Len(data)
        /\ \A i \in 1..Len(v) : (v \o data)[i] = v[i]
        /\ \A i \in 1..Len(data) : (v \o data)[Len(v) + i] = data[i]
    BY <2>1, ConcatFacts
  <2> QED
    BY <1>0, <2>2
<1> HIDE DEF bytes
<1>5. Len(h) \in Nat /\ Len(id) \in Nat /\ Len(data) \in Nat
  OBVIOUS
<1>6. Len(h) + 1 \in 1..Len(u) /\ Len(h) + 2 \in 1..Len(u) /\ 1..Len(u) \subseteq 1..Len(v)
  BY <1>2, <1>3, <1>5
<1>7. bytes[Len(h) + 1] = ty /\ bytes[Len(h) + 2] = n
  BY <1>2, <1>3, <1>4, <1>6
<1>8. ASSUME NEW i \in 1..Len(id) PROVE bytes[Len(h) + 2 + i] = id[i]
  <2>1. Len(u) + i \in 1..Len(v)
    BY <1>2, <1>3, <1>5
  <2> QED
    BY <1>2, <1>3, <1>4, <2>1
<1>9. Len(bytes) = Len(h) + 2 + Len(id) + Len(data) /\ Len(v) = Len(h) + 2 + Len(id)
  BY <1>2, <1>3, <1>4, <1>5
<1> QED
  BY <1>4, <1>7, <1>8, <1>9 DEF bytes

\* The parts of a header.
HeaderByte == {<<"nlmsg_len", n>> : n \in Nat} \union Heap \union {"nlmsg_seq", "nlmsg_pid"}

LEMMA HeaderParts ==
  /\ HeaderLen \in Nat /\ SeqOffset \in Nat /\ SeqLen \in Nat /\ SeqOffset > 0 /\ SeqLen > 0
  /\ HeaderLen - SeqOffset - SeqLen \in Nat
  /\ SeqOffset + SeqLen \in Nat /\ SeqOffset + SeqLen <= HeaderLen
BY SizesAssumption

LEMMA BytesFacts ==
  ASSUME NEW B, NEW name \in B, NEW n \in Nat
  PROVE  Bytes(name, n) \in Seq(B) /\ Len(Bytes(name, n)) = n
BY DEF Bytes

\* h is a header that says n, with heap for nlmsg_seq.
HeaderIs(B, h, n, heap) ==
  /\ h \in Seq(B) /\ Len(h) = HeaderLen
  /\ \A i \in 1..SeqOffset : h[i] = BeforeSeq(n)[i]
  /\ \A i \in SeqBytes : h[i] = heap
  /\ \A i \in 1..Len(AfterSeq) : h[SeqOffset + SeqLen + i] = AfterSeq[i]

LEMMA HeaderLaid ==
  ASSUME NEW B, HeaderByte \subseteq B, NEW n \in Nat, NEW heap \in Heap \union {"nlmsg_seq"}
  PROVE  HeaderIs(B, Header(n, heap), n, heap)
<1> DEFINE s == BeforeSeq(n)
           t == Bytes(heap, SeqLen)
           u == AfterSeq
           st == s \o t
<1>1. <<"nlmsg_len", n>> \in B /\ heap \in B /\ "nlmsg_pid" \in B
  BY DEF HeaderByte
<1>2. /\ s \in Seq(B) /\ Len(s) = SeqOffset
      /\ t \in Seq(B) /\ Len(t) = SeqLen
      /\ u \in Seq(B) /\ Len(u) = HeaderLen - SeqOffset - SeqLen
  BY <1>1, HeaderParts, BytesFacts DEF BeforeSeq, AfterSeq
<1>3. \A j \in 1..SeqLen : t[j] = heap
  BY DEF Bytes
<1>4. Header(n, heap) = st \o u
  BY DEF Header
<1> HIDE DEF s, t, u
<1>5. /\ st \in Seq(B) /\ Len(st) = SeqOffset + SeqLen
      /\ \A i \in 1..SeqOffset : st[i] = s[i]
      /\ \A i \in 1..SeqLen : st[SeqOffset + i] = t[i]
  <2>1. s \in Seq(B) /\ t \in Seq(B)
    BY <1>2
  <2>2. /\ s \o t \in Seq(B) /\ Len(s \o t) = Len(s) + Len(t)
        /\ \A i \in 1..Len(s) : (s \o t)[i] = s[i]
        /\ \A i \in 1..Len(t) : (s \o t)[Len(s) + i] = t[i]
    BY ONLY <2>1, ConcatFacts
  <2> QED
    BY <1>2, <2>2
<1> HIDE DEF st
<1>6. /\ st \o u \in Seq(B) /\ Len(st \o u) = SeqOffset + SeqLen + Len(u)
      /\ \A i \in 1..(SeqOffset + SeqLen) : (st \o u)[i] = st[i]
      /\ \A i \in 1..Len(u) : (st \o u)[SeqOffset + SeqLen + i] = u[i]
  <2>1. st \in Seq(B) /\ u \in Seq(B)
    BY <1>2, <1>5
  <2>2. /\ st \o u \in Seq(B) /\ Len(st \o u) = Len(st) + Len(u)
        /\ \A i \in 1..Len(st) : (st \o u)[i] = st[i]
        /\ \A i \in 1..Len(u) : (st \o u)[Len(st) + i] = u[i]
    BY ONLY <2>1, ConcatFacts
  <2> QED
    BY <1>5, <2>2
<1> DEFINE h == Header(n, heap)
<1>7. h = st \o u
  BY <1>4
<1> HIDE DEF h
<1>8. Len(h) = HeaderLen
  <2>1. Len(h) = SeqOffset + SeqLen + (HeaderLen - SeqOffset - SeqLen)
    BY <1>2, <1>6, <1>7
  <2>2. SeqOffset + SeqLen + (HeaderLen - SeqOffset - SeqLen) = HeaderLen
    BY ONLY HeaderParts
  <2> QED
    BY <2>1, <2>2
<1>9. ASSUME NEW i \in 1..SeqOffset PROVE h[i] = s[i]
  <2>1. i \in 1..(SeqOffset + SeqLen)
    BY HeaderParts
  <2> QED
    BY <1>5, <1>6, <1>7, <2>1
<1>10. ASSUME NEW i \in SeqBytes PROVE h[i] = heap
  <2>1. i - SeqOffset \in 1..SeqLen /\ SeqOffset + (i - SeqOffset) = i /\ i \in 1..(SeqOffset + SeqLen)
    BY HeaderParts DEF SeqBytes
  <2>2. st[SeqOffset + (i - SeqOffset)] = t[i - SeqOffset] /\ t[i - SeqOffset] = heap
    BY <1>3, <1>5, <2>1
  <2> QED
    BY <1>6, <1>7, <2>1, <2>2
<1>11. \A i \in 1..Len(u) : h[SeqOffset + SeqLen + i] = u[i]
  BY <1>6, <1>7
<1> QED
  BY <1>6, <1>7, <1>8, <1>9, <1>10, <1>11 DEF HeaderIs, h, s, u

\* What the bytes of an event can be.
EventTypes == {"PUBLISHED_DATA", "SCOPE_PUBLISHED"}
Byte == HeaderByte \union {"id", "data"} \union EventTypes \union Nat
EventHeader == Header(0, "nlmsg_seq")

LEMMA EventHeaderFacts ==
  ASSUME NEW B, HeaderByte \subseteq B
  PROVE  EventHeader \in Seq(B) /\ Len(EventHeader) = HeaderLen
<1>1. HeaderIs(B, EventHeader, 0, "nlmsg_seq")
  BY HeaderLaid DEF EventHeader
<1> QED
  BY <1>1 DEF HeaderIs

\* An identifier of the node consists of as many fragments as its bytes fill.
LEMMA EventIdFacts ==
  ASSUME NEW id \in EventIds
  PROVE  id \in Seq(Byte) /\ Fragments(id) \in Nat /\ Fragments(id) * IdLen = Len(id)
<1>1. PICK n \in 1..(MaxLen \div IdLen) : id = Bytes("id", n * IdLen)
  BY DEF EventIds
<1>2. IdLen \in Nat /\ IdLen > 0 /\ n \in Nat
  BY <1>1, SizesAssumption
<1>3. n * IdLen \in Nat
  BY <1>2
<1>4. id \in Seq(Byte) /\ Len(id) = n * IdLen
  BY <1>1, <1>3, BytesFacts DEF Byte
<1>5. (n * IdLen) \div IdLen = n
  BY <1>2, <1>3
<1> QED
  BY <1>2, <1>4, <1>5 DEF Fragments

Meanings ==
  {[type |-> ty, id |-> id, data |-> data] :
     ty \in EventTypes, id \in EventIds, data \in {Bytes("data", n) : n \in Nat}}

\* What the node sends: data with published data only.
Sent ==
  {[bytes |-> Datagram(m.type, m.id, m.data), meant |-> m] :
     m \in {x \in Meanings : x.type /= "PUBLISHED_DATA" => x.data = <<>>}}

\* The Event made of a whole datagram is what the node meant.
LEMMA Decoded ==
  ASSUME NEW e \in Sent, Fragments(e.meant.id) < ByteRange
  PROVE  DecodeEvent(e.bytes) = e.meant
<1> DEFINE m == e.meant
           bytes == e.bytes
           n == Fragments(m.id)
<1>1. PICK ty \in EventTypes, id \in EventIds, k \in Nat :
        /\ m = [type |-> ty, id |-> id, data |-> Bytes("data", k)]
        /\ ty /= "PUBLISHED_DATA" => Bytes("data", k) = <<>>
        /\ bytes = Datagram(ty, id, Bytes("data", k))
  BY DEF Sent, Meanings
<1> DEFINE data == Bytes("data", k)
<1>2. data \in Seq(Byte) /\ Len(data) = k
  BY BytesFacts DEF Byte
<1>3. HeaderLen \in Nat /\ IdLen \in Nat /\ ByteRange \in Nat
  BY SizesAssumption
<1>4. EventHeader \in Seq(Byte) /\ Len(EventHeader) = HeaderLen
  BY EventHeaderFacts DEF Byte
<1>5. m.type = ty /\ m.id = id /\ m.data = data
  BY <1>1
<1>6. id \in Seq(Byte) /\ n \in Nat /\ n * IdLen = Len(id)
  BY <1>5, EventIdFacts
<1>7. LengthByte(id) = <<n>>
  <2>1. n % ByteRange = n
    BY <1>3, <1>6
  <2> QED
    BY <1>5, <2>1 DEF LengthByte
<1> HIDE DEF n, data
<1>8. bytes = EventHeader \o <<ty>> \o <<n>> \o id \o data
  BY <1>1, <1>7 DEF Datagram, EventHeader, data
<1>9. ty \in Byte /\ n \in Byte
  BY <1>6 DEF Byte
<1>10. /\ bytes \in Seq(Byte)
       /\ Len(bytes) = HeaderLen + 2 + Len(id) + Len(data)
       /\ bytes[HeaderLen + 1] = ty
       /\ bytes[HeaderLen + 2] = n
       /\ \A i \in 1..Len(id) : bytes[HeaderLen + 2 + i] = id[i]
       /\ \A i \in 1..Len(data) : bytes[HeaderLen + 2 + Len(id) + i] = data[i]
  <2>1. data \in Seq(Byte) /\ id \in Seq(Byte)
    BY <1>2, <1>6
  <2> DEFINE h == EventHeader
             glued == Glued(h, ty, n, id, data)
  <2>2. h \in Seq(Byte) /\ Len(h) = HeaderLen /\ bytes = glued
    BY <1>4, <1>8 DEF Glued
  <2> HIDE DEF h, bytes
  <2>3. /\ glued \in Seq(Byte)
        /\ Len(glued) = Len(h) + 2 + Len(id) + Len(data)
        /\ glued[Len(h) + 1] = ty
        /\ glued[Len(h) + 2] = n
        /\ \A i \in 1..Len(id) : glued[Len(h) + 2 + i] = id[i]
        /\ \A i \in 1..Len(data) : glued[Len(h) + 2 + Len(id) + i] = data[i]
    <3>1. h \in Seq(Byte) /\ ty \in Byte /\ n \in Byte /\ id \in Seq(Byte) /\ data \in Seq(Byte)
      BY <1>9, <2>1, <2>2
    <3>2. glued \in Seq(Byte) /\ Len(glued) = Len(h) + 2 + Len(id) + Len(data)
      BY ONLY <3>1, Pieces
    <3>3. glued[Len(h) + 1] = ty /\ glued[Len(h) + 2] = n
      BY ONLY <3>1, Pieces
    <3>4. \A i \in 1..Len(id) : glued[Len(h) + 2 + i] = id[i]
      BY ONLY <3>1, Pieces
    <3>5. \A i \in 1..Len(data) : glued[Len(h) + 2 + Len(id) + i] = data[i]
      BY ONLY <3>1, Pieces
    <3> QED
      BY ONLY <3>2, <3>3, <3>4, <3>5
  <2> HIDE DEF glued
  <2> QED
    BY <2>2, <2>3
<1> HIDE DEF bytes
<1>11. Field(bytes, HeaderLen + 1) = id
  <2>1. HeaderLen + 1 + 1 = HeaderLen + 2
    BY <1>3
  <2>2. Field(bytes, HeaderLen + 1) =
          [i \in 1..Len(id) |->
            IF HeaderLen + 2 + i <= Len(bytes) THEN bytes[HeaderLen + 2 + i] ELSE Garbage]
    BY <1>6, <1>10, <2>1 DEF Field
  <2>3. \A i \in 1..Len(id) : HeaderLen + 2 + i <= Len(bytes)
    BY <1>2, <1>3, <1>6, <1>10
  <2>4. Field(bytes, HeaderLen + 1) = [i \in 1..Len(id) |-> id[i]]
    BY <1>10, <2>2, <2>3
  <2>5. id = [i \in 1..Len(id) |-> id[i]]
    BY <1>6
  <2> QED
    BY <2>4, <2>5
<1>12. EventData(bytes) = data
  <2> DEFINE from == HeaderLen + 2 + Len(id)
  <2>1. from \in Nat /\ Len(bytes) = from + Len(data) /\ Len(data) \in Nat
    BY <1>2, <1>3, <1>6, <1>10
  <2>2. EventData(bytes) = SubSeq(bytes, from + 1, Len(bytes))
    BY <1>6, <1>10 DEF EventData, After
  <2>3. \A i \in 1..Len(data) : bytes[from + i] = data[i]
    BY <1>10
  <2> HIDE DEF from
  <2>4. /\ SubSeq(bytes, from + 1, Len(bytes)) \in Seq(Byte)
        /\ Len(SubSeq(bytes, from + 1, Len(bytes))) = Len(data)
        /\ \A i \in 1..Len(data) : SubSeq(bytes, from + 1, Len(bytes))[i] = bytes[from + i]
    BY <1>10, <2>1
  <2> DEFINE rest == SubSeq(bytes, from + 1, Len(bytes))
  <2> HIDE DEF rest
  <2>5. rest \in Seq(Byte) /\ Len(rest) = Len(data) /\ \A i \in 1..Len(data) : rest[i] = data[i]
    BY <2>3, <2>4 DEF rest
  <2>6. rest = data
    BY <1>2, <2>5
  <2> QED
    BY <2>2, <2>6 DEF rest
<1>13. ty /= "PUBLISHED_DATA" => data = <<>>
  BY <1>1 DEF data
<1>14. DecodeEvent(bytes) = [type |-> ty, id |-> id, data |-> data]
  <2>1. (IF ty = "PUBLISHED_DATA" THEN data ELSE <<>>) = data
    BY <1>13
  <2> QED
    BY <1>10, <1>11, <1>12, <2>1 DEF DecodeEvent
<1> QED
  BY <1>1, <1>14 DEF data, bytes

(***************************************************************************)
(* Readers                                                                 *)
(***************************************************************************)

\* A thread that nobody overtook has seen the size of the first datagram.
PeekInv ==
  /\ inbox \in Seq(Sent)
  /\ peeked \in [Readers -> Nat]
  /\ \A t \in Readers \ overtaken :
       peeked[t] > 0 => inbox /= <<>> /\ peeked[t] = Len(Head(inbox).bytes)

IInv == PeekInv /\ EventsAreReadBack

LEMMA SentBytes ==
  ASSUME NEW e \in Sent
  PROVE  \E B : e.bytes \in Seq(B)
<1>1. PICK ty \in EventTypes, id \in EventIds, k \in Nat : e.bytes = Datagram(ty, id, Bytes("data", k))
  BY DEF Sent, Meanings
<1> DEFINE B == Byte \union {ty, Fragments(id) % ByteRange}
           data == Bytes("data", k)
<1>2. EventHeader \in Seq(B)
  BY EventHeaderFacts DEF Byte
<1>3. id \in Seq(B)
  <2>1. id \in Seq(Byte)
    BY EventIdFacts
  <2> QED
    BY <2>1
<1>4. data \in Seq(B)
  BY BytesFacts DEF Byte
<1> DEFINE n == Fragments(id) % ByteRange
<1>5. ty \in B /\ n \in B
  OBVIOUS
<1>6. e.bytes = Glued(EventHeader, ty, n, id, data)
  BY <1>1 DEF Datagram, EventHeader, LengthByte, Glued
<1> HIDE DEF B, n, data
<1>7. Glued(EventHeader, ty, n, id, data) \in Seq(B)
  BY ONLY <1>2, <1>3, <1>4, <1>5, Pieces
<1> QED
  BY <1>6, <1>7

LEMMA IInvInit == Init => IInv
BY DEF Init, IInv, PeekInv, EventsAreReadBack, Nothing, Exchange

LEMMA StepNodeSends ==
  ASSUME IInv, NEW ty \in EventTypes, NEW id \in EventIds, NEW k \in Nat,
         ty /= "PUBLISHED_DATA" => Bytes("data", k) = <<>>,
         NodeSends(ty, id, Bytes("data", k))
  PROVE  IInv'
<1> DEFINE m == [type |-> ty, id |-> id, data |-> Bytes("data", k)]
           e == [bytes |-> Datagram(ty, id, Bytes("data", k)), meant |-> m]
<1>1. inbox' = Append(inbox, e) /\ event' = Nothing /\ UNCHANGED <<peeked, overtaken>>
  BY DEF NodeSends
<1>2. e \in Sent
  BY DEF Sent, Meanings
<1> HIDE DEF e
<1>3. inbox' \in Seq(Sent) /\ inbox' /= <<>> /\ (inbox /= <<>> => Head(inbox') = Head(inbox))
  BY <1>1, <1>2 DEF IInv, PeekInv
<1>4. PeekInv'
  BY <1>1, <1>3 DEF IInv, PeekInv
<1>5. EventsAreReadBack'
  BY <1>1 DEF EventsAreReadBack, Nothing, Exchange
<1> QED
  BY <1>4, <1>5 DEF IInv

LEMMA StepPeek == ASSUME IInv, NEW t \in Readers, Peek(t) PROVE IInv'
<1>1. /\ inbox /= <<>> /\ peeked' = [peeked EXCEPT ![t] = Len(Head(inbox).bytes)]
      /\ event' = Nothing /\ UNCHANGED <<inbox, overtaken>>
  BY DEF Peek
<1>2. Len(Head(inbox).bytes) \in Nat
  <2>1. Head(inbox) \in Sent
    BY <1>1 DEF IInv, PeekInv
  <2>2. PICK B : Head(inbox).bytes \in Seq(B)
    BY <2>1, SentBytes
  <2> QED
    BY <2>2
<1>3. PeekInv'
  BY <1>1, <1>2 DEF IInv, PeekInv
<1>4. EventsAreReadBack'
  BY <1>1 DEF EventsAreReadBack, Nothing, Exchange
<1> QED
  BY <1>3, <1>4 DEF IInv

LEMMA StepReadEvent == ASSUME IInv, NEW t \in Readers, ReadEvent(t) PROVE IInv'
<1> DEFINE first == Head(inbox)
           bytes_read == IF Len(first.bytes) < peeked[t] THEN Len(first.bytes) ELSE peeked[t]
<1>1. /\ peeked[t] > 0 /\ inbox /= <<>> /\ inbox' = Tail(inbox)
      /\ peeked' = [peeked EXCEPT ![t] = 0]
      /\ overtaken' = {u \in Readers \ {t} : peeked[u] > 0}
      /\ event' = Exchange(DecodeEvent(SubSeq(first.bytes, 1, bytes_read)), first.meant, t \in overtaken)
  BY DEF ReadEvent
<1>2. first \in Sent /\ inbox' \in Seq(Sent)
  BY <1>1 DEF IInv, PeekInv
<1>3. PeekInv'
  <2>1. peeked' \in [Readers -> Nat]
    BY <1>1 DEF IInv, PeekInv
  <2>2. \A u \in Readers \ overtaken' : ~(peeked'[u] > 0)
    BY <1>1 DEF IInv, PeekInv
  <2> QED
    BY <1>2, <2>1, <2>2 DEF PeekInv
<1> HIDE DEF first
<1>4. EventsAreReadBack'
  <2> SUFFICES ASSUME Fragments(event'.meant.id) < ByteRange, ~event'.late
               PROVE  event'.read = event'.meant
    BY DEF EventsAreReadBack
  <2>1. /\ event'.read = DecodeEvent(SubSeq(first.bytes, 1, bytes_read))
        /\ event'.meant = first.meant
        /\ event'.late = (t \in overtaken)
    BY <1>1 DEF Exchange
  <2>2. PICK B : first.bytes \in Seq(B)
    BY <1>2, SentBytes
  <2>3. bytes_read = Len(first.bytes)
    BY <1>1, <2>1, <2>2 DEF IInv, PeekInv, first
  <2>4. SubSeq(first.bytes, 1, Len(first.bytes)) = first.bytes
    BY <2>2
  <2> QED
    BY <1>2, <2>1, <2>3, <2>4, Decoded
<1> QED
  BY <1>3, <1>4 DEF IInv

LEMMA StepReadFails == ASSUME IInv, NEW t \in Readers, ReadFails(t) PROVE IInv'
<1>1. /\ peeked' = [peeked EXCEPT ![t] = 0] /\ overtaken' = overtaken \ {t}
      /\ event' = Nothing /\ UNCHANGED inbox
  BY DEF ReadFails
<1>2. PeekInv'
  BY <1>1 DEF IInv, PeekInv
<1>3. EventsAreReadBack'
  BY <1>1 DEF EventsAreReadBack, Nothing, Exchange
<1> QED
  BY <1>2, <1>3 DEF IInv

LEMMA IInvNext == IInv /\ [Next]_vars => IInv'
<1> SUFFICES ASSUME IInv, [Next]_vars PROVE IInv'
  OBVIOUS
<1>1. CASE \E c \in ServiceCalls \union DataCalls, heap, nbHeap \in Heap : Issue(c, heap, nbHeap)
  <2>1. UNCHANGED <<inbox, peeked, overtaken, event>>
    BY <1>1 DEF Issue
  <2> QED
    BY <2>1 DEF IInv, PeekInv, EventsAreReadBack
<1>2. CASE \E id \in EventIds, n \in {0, 3} : NodeSends("PUBLISHED_DATA", id, Bytes("data", n))
  BY <1>2, StepNodeSends DEF EventTypes
<1>3. CASE \E id \in EventIds : NodeSends("SCOPE_PUBLISHED", id, <<>>)
  <2>1. <<>> = Bytes("data", 0)
    BY DEF Bytes
  <2> QED
    BY <1>3, <2>1, StepNodeSends DEF EventTypes
<1>4. CASE \E t \in Readers : Peek(t) \/ ReadEvent(t) \/ ReadFails(t)
  BY <1>4, StepPeek, StepReadEvent, StepReadFails
<1>5. CASE UNCHANGED vars
  BY <1>5 DEF vars, IInv, PeekInv, EventsAreReadBack
<1> QED
  BY <1>1, <1>2, <1>3, <1>4, <1>5 DEF Next

\* The Event that is built is the one the node sent, with its type, its identifier
\* and its data, for any sizes, any number of datagrams and any threads that read
\* them, unless another thread has read in between.
THEOREM EventsAreWhatTheNodeSent == Spec => []EventsAreReadBack
<1>1. IInv => EventsAreReadBack
  BY DEF IInv
<1> QED
  BY <1>1, IInvInit, IInvNext, PTL DEF Spec

(***************************************************************************)
(* The copies of the non-blocking library                                  *)
(***************************************************************************)

Text == {"id", "prefix", "options", "data", "null"}

\* The fields of a call.
LEMMA CallFacts ==
  ASSUME NEW c \in ServiceCalls \union DataCalls
  PROVE  /\ c.id \in Seq(Text) /\ c.prefix_id \in Seq(Text) /\ StrOpt(c.options) \in Seq(Text)
         /\ c.data \in Seq(Text)
         /\ c.op \in ServiceOps \union {"publishData"}
         /\ c.op \in ServiceOps => c.data = <<>> /\ c.length = 0
         /\ c.op \notin ServiceOps => c.prefix_id = <<>>
         /\ c.length \in 0..Len(c.data)
<1>1. \A n \in Nat : /\ Bytes("id", n) \in Seq(Text)
                     /\ Bytes("prefix", n) \in Seq(Text)
                     /\ Bytes("options", n) \in Seq(Text)
                     /\ Bytes("data", n) \in Seq(Text)
  <2>1. "id" \in Text /\ "prefix" \in Text /\ "options" \in Text /\ "data" \in Text
    BY DEF Text
  <2> QED
    BY <2>1, BytesFacts
<1>2. \A n \in 0..MaxLen : n \in Nat
  BY SizesAssumption
<1>e. <<>> \in Seq(Text) /\ Len(<<>>) = 0
  OBVIOUS
<1>3. c.id \in Seq(Text)
  <2>1. c.id \in Ids
    BY DEF ServiceCalls, DataCalls
  <2> QED
    BY <1>1, <1>2, <2>1 DEF Ids
<1>4. c.prefix_id \in Seq(Text)
  <2>1. c.prefix_id \in {Bytes("prefix", n) : n \in 0..MaxLen} \union {<<>>}
    BY DEF ServiceCalls, DataCalls
  <2> QED
    BY <1>1, <1>2, <1>e, <2>1
<1>5. StrOpt(c.options) \in Seq(Text)
  <2>1. c.options \in JavaOptions
    BY DEF ServiceCalls, DataCalls
  <2> QED
    BY <1>1, <1>e, <2>1 DEF JavaOptions, StrOpt
<1>6. CASE c \in ServiceCalls
  <2>1. c.op \in ServiceOps /\ c.data = <<>> /\ c.length = 0
    BY <1>6 DEF ServiceCalls
  <2> QED
    BY <1>3, <1>4, <1>5, <1>e, <2>1
<1>7. CASE c \in DataCalls
  <2>1. c.op = "publishData" /\ c.prefix_id = <<>> /\ c.data \in {<<>>, Bytes("data", 3)}
        /\ c.length \in 0..3 /\ c.length <= Len(c.data)
    BY <1>7 DEF DataCalls
  <2>2. "publishData" \notin ServiceOps
    BY DEF ServiceOps
  <2>3. c.data \in Seq(Text) /\ Len(c.data) \in Nat
    <3>1. Bytes("data", 3) \in Seq(Text)
      BY <1>1
    <3>2. c.data \in Seq(Text)
      BY <1>e, <2>1, <3>1
    <3> QED
      BY <3>2
  <2> QED
    BY <1>3, <1>4, <1>5, <2>1, <2>2, <2>3
<1> QED
  BY <1>6, <1>7

LEMMA RequestFacts ==
  ASSUME NEW c \in ServiceCalls \union DataCalls
  PROVE  /\ Request(c).id \in Seq(Text)
         /\ Request(c).prefix_id \in Seq(Text)
         /\ Request(c).options \in Seq(Text)
<1>1. <<>> \in Seq(Text)
  OBVIOUS
<1> QED
  BY <1>1, CallFacts DEF Request, call_blackadder, c_publish_data

\* Part i of p goes to this offset and has this length.
Lies(p, i, offset, length) == p[i].offset = offset /\ Len(p[i].bytes) = length

LEMMA PartLies ==
  ASSUME NEW p, NEW i, NEW offset, NEW bytes, p[i] = Part(offset, bytes)
  PROVE  Lies(p, i, offset, Len(bytes))
BY DEF Lies, Part

LEMMA SmallParts ==
  /\ \A n : Len(BeforeSeq(n)) = SeqOffset
  /\ Len(AfterSeq) = HeaderLen - SeqOffset - SeqLen
  /\ \A bytes : Len(LengthByte(bytes)) = 1
  /\ \A byte : Len(<<byte>>) = 1
BY HeaderParts DEF BeforeSeq, AfterSeq, Bytes, LengthByte

LEMMA BufferLengths ==
  ASSUME NEW r, Len(r.id) \in Nat, Len(r.prefix_id) \in Nat, Len(r.options) \in Nat
  PROVE  /\ PushLength(r) = HeaderLen + 4 + Len(r.id) + Len(r.prefix_id) + Len(r.options)
         /\ DataLength(r) = HeaderLen + 3 + Len(r.id) + Len(r.options)
<1> DEFINE a == Len(r.id)
           b == Len(r.prefix_id)
           d == Len(r.options)
<1>1. /\ PushLength(r) = HeaderLen + 1 + 1 + a + 1 + b + 1 + d
      /\ DataLength(r) = HeaderLen + 1 + 1 + a + 1 + d
  BY DEF PushLength, DataLength
<1>2. HeaderLen \in Nat /\ a \in Nat /\ b \in Nat /\ d \in Nat
  BY SizesAssumption
<1> HIDE DEF a, b, d
<1>3. /\ PushLength(r) = HeaderLen + 4 + a + b + d
      /\ DataLength(r) = HeaderLen + 3 + a + d
  BY <1>1, <1>2
<1> QED
  BY <1>3 DEF a, b, d

\* The first two parts are the header's, but for nlmsg_seq.
HeaderLies(p) ==
  /\ Lies(p, 1, 0, SeqOffset)
  /\ Lies(p, 2, SeqOffset + SeqLen, HeaderLen - SeqOffset - SeqLen)

\* The parts of a service request lie one behind the other.
LEMMA PushLayout ==
  ASSUME NEW r, NEW a \in Nat, NEW b \in Nat, NEW d \in Nat,
         Len(r.id) = a, Len(r.prefix_id) = b, Len(r.options) = d
  PROVE  /\ DOMAIN PushParts(r) = 1..9
         /\ HeaderLies(PushParts(r))
         /\ Lies(PushParts(r), 3, HeaderLen, 1)
         /\ Lies(PushParts(r), 4, HeaderLen + 1, 1)
         /\ Lies(PushParts(r), 5, HeaderLen + 2, a)
         /\ Lies(PushParts(r), 6, HeaderLen + 2 + a, 1)
         /\ Lies(PushParts(r), 7, HeaderLen + 3 + a, b)
         /\ Lies(PushParts(r), 8, HeaderLen + 3 + a + b, 1)
         /\ Lies(PushParts(r), 9, HeaderLen + 4 + a + b, d)
<1>1. HeaderLen \in Nat
  BY SizesAssumption
<1> DEFINE p == PushParts(r)
<1>2. DOMAIN p = 1..9
  BY DEF PushParts
<1>3. /\ p[1] = Part(0, BeforeSeq(PushLength(r)))
      /\ p[2] = Part(SeqOffset + SeqLen, AfterSeq)
      /\ p[3] = Part(HeaderLen, <<r.type>>)
      /\ p[4] = Part(HeaderLen + 1, LengthByte(r.id))
      /\ p[5] = Part(HeaderLen + 1 + 1, r.id)
      /\ p[6] = Part(HeaderLen + 1 + 1 + a, LengthByte(r.prefix_id))
      /\ p[7] = Part(HeaderLen + 1 + 1 + a + 1, r.prefix_id)
      /\ p[8] = Part(HeaderLen + 1 + 1 + a + 1 + b, <<"strategy">>)
      /\ p[9] = Part(HeaderLen + 1 + 1 + a + 1 + b + 1, r.options)
  BY DEF PushParts
<1> HIDE DEF p
<1>4. HeaderLies(p)
  BY <1>3, PartLies, SmallParts DEF HeaderLies
<1>5. /\ Lies(p, 3, HeaderLen, 1)
      /\ Lies(p, 4, HeaderLen + 1, 1) /\ Lies(p, 5, HeaderLen + 1 + 1, a)
  BY <1>3, PartLies, SmallParts
<1>6. /\ Lies(p, 6, HeaderLen + 1 + 1 + a, 1) /\ Lies(p, 7, HeaderLen + 1 + 1 + a + 1, b)
      /\ Lies(p, 8, HeaderLen + 1 + 1 + a + 1 + b, 1)
      /\ Lies(p, 9, HeaderLen + 1 + 1 + a + 1 + b + 1, d)
  BY <1>3, PartLies, SmallParts
<1>7. /\ HeaderLen + 1 + 1 = HeaderLen + 2
      /\ HeaderLen + 1 + 1 + a = HeaderLen + 2 + a
      /\ HeaderLen + 1 + 1 + a + 1 = HeaderLen + 3 + a
      /\ HeaderLen + 1 + 1 + a + 1 + b = HeaderLen + 3 + a + b
      /\ HeaderLen + 1 + 1 + a + 1 + b + 1 = HeaderLen + 4 + a + b
  BY ONLY <1>1, a \in Nat, b \in Nat, d \in Nat
<1> QED
  BY <1>2, <1>4, <1>5, <1>6, <1>7 DEF p

\* The parts of published data, but for the data.
LEMMA DataLayout ==
  ASSUME NEW r, NEW a \in Nat, NEW d \in Nat, Len(r.id) = a, Len(r.options) = d
  PROVE  /\ DOMAIN DataParts(r) = 1..7
         /\ HeaderLies(DataParts(r))
         /\ Lies(DataParts(r), 3, HeaderLen, 1)
         /\ Lies(DataParts(r), 4, HeaderLen + 1, 1)
         /\ Lies(DataParts(r), 5, HeaderLen + 2, a)
         /\ Lies(DataParts(r), 6, HeaderLen + 2 + a, 1)
         /\ Lies(DataParts(r), 7, HeaderLen + 3 + a, d)
<1>1. HeaderLen \in Nat
  BY SizesAssumption
<1> DEFINE p == DataParts(r)
<1>2. DOMAIN p = 1..7
  BY DEF DataParts
<1>3. /\ p[1] = Part(0, BeforeSeq(DataLength(r) + Len(r.data)))
      /\ p[2] = Part(SeqOffset + SeqLen, AfterSeq)
      /\ p[3] = Part(HeaderLen, <<r.type>>)
      /\ p[4] = Part(HeaderLen + 1, LengthByte(r.id))
      /\ p[5] = Part(HeaderLen + 1 + 1, r.id)
      /\ p[6] = Part(HeaderLen + 1 + 1 + a, <<"strategy">>)
      /\ p[7] = Part(HeaderLen + 1 + 1 + a + 1, r.options)
  BY DEF DataParts
<1> HIDE DEF p
<1>4. HeaderLies(p)
  BY <1>3, PartLies, SmallParts DEF HeaderLies
<1>5. /\ Lies(p, 3, HeaderLen, 1)
      /\ Lies(p, 4, HeaderLen + 1, 1) /\ Lies(p, 5, HeaderLen + 1 + 1, a)
      /\ Lies(p, 6, HeaderLen + 1 + 1 + a, 1) /\ Lies(p, 7, HeaderLen + 1 + 1 + a + 1, d)
  BY <1>3, PartLies, SmallParts
<1>6. /\ HeaderLen + 1 + 1 = HeaderLen + 2
      /\ HeaderLen + 1 + 1 + a = HeaderLen + 2 + a
      /\ HeaderLen + 1 + 1 + a + 1 = HeaderLen + 3 + a
  BY ONLY <1>1, a \in Nat, d \in Nat
<1> QED
  BY <1>2, <1>4, <1>5, <1>6 DEF p

LEMMA WritersOfLies ==
  ASSUME NEW p, NEW i, NEW from \in Nat, NEW length \in Nat, Lies(p, i, from, length),
         NEW offset \in Nat
  PROVE  i \in Writers(p, offset) <=> i \in DOMAIN p /\ from <= offset /\ offset < from + length
BY DEF Writers, Lies

\* Offsets that do not go down, and parts that lie between them, those of the
\* header between the first two.
Ascending(f) == f \in [1..9 -> Nat] /\ f[1] = 0 /\ \A i \in 1..8 : f[i] <= f[i + 1]
Consecutive(p, n, f) ==
  /\ DOMAIN p = 1..(n + 1) /\ HeaderLies(p) /\ f[2] = HeaderLen
  /\ \A i \in 2..n : Lies(p, i + 1, f[i], f[i + 1] - f[i])

LEMMA AscendingFacts ==
  ASSUME NEW f, Ascending(f)
  PROVE  /\ \A i \in 1..9 : f[i] \in Nat
         /\ \A i, j \in 1..9 : i <= j => f[i] <= f[j]
<1>1. \A i \in 1..9 : f[i] \in Nat
  BY DEF Ascending
<1>2. /\ f[1] <= f[2] /\ f[2] <= f[3] /\ f[3] <= f[4] /\ f[4] <= f[5]
      /\ f[5] <= f[6] /\ f[6] <= f[7] /\ f[7] <= f[8] /\ f[8] <= f[9]
  BY DEF Ascending
<1>3. /\ f[1] \in Nat /\ f[2] \in Nat /\ f[3] \in Nat /\ f[4] \in Nat /\ f[5] \in Nat
      /\ f[6] \in Nat /\ f[7] \in Nat /\ f[8] \in Nat /\ f[9] \in Nat
  BY <1>1
<1>4. \A i \in 1..9 : i = 1 \/ i = 2 \/ i = 3 \/ i = 4 \/ i = 5 \/ i = 6 \/ i = 7 \/ i = 8 \/ i = 9
  OBVIOUS
<1>5. ASSUME NEW i \in 1..9, NEW j \in 1..9, i <= j PROVE f[i] <= f[j]
  BY <1>2, <1>3, <1>4, <1>5
<1> QED
  BY <1>1, <1>5

\* A tuple of nine numbers is a function of nine arguments.
LEMMA NineTuple ==
  ASSUME NEW v1 \in Nat, NEW v2 \in Nat, NEW v3 \in Nat, NEW v4 \in Nat, NEW v5 \in Nat,
         NEW v6 \in Nat, NEW v7 \in Nat, NEW v8 \in Nat, NEW v9 \in Nat,
         v1 = 0, v1 <= v2, v2 <= v3, v3 <= v4, v4 <= v5, v5 <= v6, v6 <= v7, v7 <= v8, v8 <= v9
  PROVE  Ascending(<<v1, v2, v3, v4, v5, v6, v7, v8, v9>>)
<1> DEFINE f == <<v1, v2, v3, v4, v5, v6, v7, v8, v9>>
<1>1. /\ f[1] = v1 /\ f[2] = v2 /\ f[3] = v3 /\ f[4] = v4 /\ f[5] = v5
      /\ f[6] = v6 /\ f[7] = v7 /\ f[8] = v8 /\ f[9] = v9
      /\ f = [i \in 1..9 |-> f[i]]
  OBVIOUS
<1> HIDE DEF f
<1>2. \A i \in 1..9 : i = 1 \/ i = 2 \/ i = 3 \/ i = 4 \/ i = 5 \/ i = 6 \/ i = 7 \/ i = 8 \/ i = 9
  OBVIOUS
<1>3. \A i \in 1..9 : f[i] \in Nat
  BY <1>1, <1>2
<1>4. f \in [1..9 -> Nat]
  BY <1>1, <1>3
<1>5. \A i \in 1..8 : i = 1 \/ i = 2 \/ i = 3 \/ i = 4 \/ i = 5 \/ i = 6 \/ i = 7 \/ i = 8
  OBVIOUS
<1>6. ASSUME NEW i \in 1..8 PROVE f[i] <= f[i + 1]
  BY <1>1, <1>5
<1>7. Ascending(f)
  BY <1>1, <1>4, <1>6 DEF Ascending
<1> QED
  BY <1>7 DEF f

\* Every byte belongs to one of the pieces.
LEMMA InSomePiece ==
  ASSUME NEW f, Ascending(f), NEW n \in 1..8, f[n + 1] = f[9], NEW x \in Nat, x < f[9]
  PROVE  \E i \in 1..n : f[i] <= x /\ x < f[i + 1]
<1> SUFFICES ASSUME \A i \in 1..n : ~(f[i] <= x /\ x < f[i + 1]) PROVE FALSE
  OBVIOUS
<1>0. f[9] \in Nat
  BY AscendingFacts
<1>1. ASSUME NEW i \in 1..8, f[i] <= x PROVE f[i + 1] <= x
  <2>1. f[i] \in Nat /\ f[i + 1] \in Nat
    BY AscendingFacts
  <2>2. CASE i \in 1..n
    BY <1>1, <2>1, <2>2
  <2>3. CASE i \notin 1..n
    <3>1. n + 1 \in 1..9 /\ i \in 1..9 /\ n + 1 <= i
      BY <2>3
    <3>2. f[n + 1] <= f[i]
      BY <3>1, AscendingFacts
    <3> QED
      BY <1>0, <1>1, <2>1, <3>2
  <2> QED
    BY <2>2, <2>3
<1>2. f[1] <= x
  BY DEF Ascending
<1>3. f[5] <= x
  BY <1>1, <1>2
<1>4. f[9] <= x
  BY <1>1, <1>3
<1> QED
  BY <1>0, <1>4

\* The part that writes a byte, if there is one.
WriterIs(p, n, f, W, offset) ==
  /\ W \subseteq 1..(n + 1)
  /\ \A k, l \in W : k = l
  /\ 1 \in W <=> offset < SeqOffset
  /\ 2 \in W <=> SeqOffset + SeqLen <= offset /\ offset < HeaderLen
  /\ \A i \in 2..n : i + 1 \in W <=> f[i] <= offset /\ offset < f[i + 1]

LEMMA WriterOf ==
  ASSUME NEW p, NEW n \in 1..8, NEW f, Ascending(f), Consecutive(p, n, f), NEW offset \in Nat
  PROVE  WriterIs(p, n, f, Writers(p, offset), offset)
<1> DEFINE W == Writers(p, offset)
<1>0. \A i \in 2..n : i \in 1..8 /\ i \in 1..9 /\ i + 1 \in 1..9 /\ 2 \in 1..9 /\ 2 <= i
  OBVIOUS
<1>1. W \subseteq 1..(n + 1)
  BY DEF Writers, Consecutive
<1>2. f[2] = HeaderLen
  BY DEF Consecutive
<1>3. 1 \in W <=> offset < SeqOffset
  <2>1. 1 \in DOMAIN p /\ Lies(p, 1, 0, SeqOffset)
    BY DEF Consecutive, HeaderLies
  <2> QED
    BY <2>1, HeaderParts, WritersOfLies
<1>4. 2 \in W <=> SeqOffset + SeqLen <= offset /\ offset < HeaderLen
  <2>1. 2 \in DOMAIN p /\ Lies(p, 2, SeqOffset + SeqLen, HeaderLen - SeqOffset - SeqLen)
    BY DEF Consecutive, HeaderLies
  <2>2. SeqOffset + SeqLen + (HeaderLen - SeqOffset - SeqLen) = HeaderLen
    BY HeaderParts
  <2> QED
    BY <2>1, <2>2, HeaderParts, WritersOfLies
<1>5. ASSUME NEW i \in 2..n PROVE i + 1 \in W <=> f[i] <= offset /\ offset < f[i + 1]
  <2>1. f[i] \in Nat /\ f[i + 1] \in Nat /\ f[i] <= f[i + 1]
    BY <1>0, AscendingFacts DEF Ascending
  <2>2. f[i + 1] - f[i] \in Nat /\ f[i] + (f[i + 1] - f[i]) = f[i + 1]
    BY <2>1
  <2>3. i + 1 \in DOMAIN p /\ Lies(p, i + 1, f[i], f[i + 1] - f[i])
    BY DEF Consecutive
  <2> QED
    BY <2>1, <2>2, <2>3, WritersOfLies
<1> HIDE DEF W
<1>6. ASSUME NEW k \in W, k >= 3
      PROVE  /\ k - 1 \in 2..n /\ k - 1 \in 1..9 /\ k \in 1..9 /\ HeaderLen <= offset
             /\ f[k - 1] <= offset /\ offset < f[k] /\ f[k - 1] \in Nat /\ f[k] \in Nat
  <2>1. k - 1 \in 2..n /\ k - 1 + 1 = k
    BY <1>1, <1>6
  <2>2. k - 1 \in 1..9 /\ k \in 1..9 /\ 2 \in 1..9 /\ 2 <= k - 1
    BY <1>0, <2>1
  <2>3. f[k - 1] <= offset /\ offset < f[k]
    BY <1>5, <2>1
  <2>4. f[2] <= f[k - 1] /\ f[k - 1] \in Nat /\ f[k] \in Nat
    BY <2>2, AscendingFacts
  <2>5. HeaderLen <= offset
    BY <1>2, <2>3, <2>4, HeaderParts
  <2> QED
    BY <2>1, <2>2, <2>3, <2>4, <2>5
<1>7. ASSUME NEW k \in W, NEW l \in W, k < l PROVE FALSE
  <2>1. k \in 1..(n + 1) /\ l \in 1..(n + 1)
    BY <1>1
  <2>2. CASE k >= 3
    <3>1. l >= 3 /\ k <= l - 1
      BY <1>7, <2>1, <2>2
    <3>2. f[k] <= f[l - 1]
      BY <1>6, <2>2, <3>1, AscendingFacts
    <3> QED
      BY <1>6, <2>2, <3>1, <3>2
  <2>3. CASE k < 3 /\ l >= 3
    <3>1. k = 1 \/ k = 2
      BY <2>1, <2>3
    <3>2. offset < HeaderLen
      BY <1>3, <1>4, <3>1, HeaderParts
    <3> QED
      BY <1>6, <2>3, <3>2, HeaderParts
  <2>4. CASE k = 1 /\ l = 2
    BY <1>3, <1>4, <2>4, HeaderParts
  <2> QED
    BY <1>7, <2>1, <2>2, <2>3, <2>4
<1>8. \A k, l \in W : k = l
  <2>1. \A k \in W : k \in Int
    BY <1>1
  <2>2. \A k, l \in W : ~(k < l) /\ ~(l < k)
    BY <1>7
  <2> QED
    BY <2>1, <2>2
<1> QED
  BY <1>1, <1>3, <1>4, <1>5, <1>8 DEF WriterIs, W

\* Consecutive parts write each byte once, nlmsg_seq excepted.
LEMMA OneWriter ==
  ASSUME NEW p, NEW n \in 1..8, NEW f, Ascending(f), Consecutive(p, n, f), f[n + 1] = f[9],
         NEW offset \in Nat
  PROVE  Cardinality(Writers(p, offset)) = IF offset < f[9] /\ offset + 1 \notin SeqBytes THEN 1 ELSE 0
<1> DEFINE W == Writers(p, offset)
<1>1. WriterIs(p, n, f, W, offset)
  BY WriterOf
<1> HIDE DEF W
<1>2. f[9] \in Nat /\ f[2] = HeaderLen /\ f[2] <= f[9]
  <2>1. 2 \in 1..9 /\ 9 \in 1..9
    OBVIOUS
  <2> QED
    BY <2>1, AscendingFacts DEF Consecutive
<1>3. offset + 1 \in SeqBytes <=> SeqOffset <= offset /\ offset < SeqOffset + SeqLen
  BY HeaderParts DEF SeqBytes
<1>4. CASE offset < f[9] /\ offset + 1 \notin SeqBytes
  <2>1. W /= {}
    <3>1. offset < SeqOffset \/ (SeqOffset + SeqLen <= offset /\ offset < HeaderLen) \/ HeaderLen <= offset
      BY <1>3, <1>4, HeaderParts
    <3>2. offset < SeqOffset => 1 \in W
      BY <1>1 DEF WriterIs
    <3>3. SeqOffset + SeqLen <= offset /\ offset < HeaderLen => 2 \in W
      BY <1>1 DEF WriterIs
    <3>4. HeaderLen <= offset => W /= {}
      <4> SUFFICES ASSUME HeaderLen <= offset PROVE W /= {}
        OBVIOUS
      <4>1. PICK i \in 1..n : f[i] <= offset /\ offset < f[i + 1]
        BY <1>4, InSomePiece
      <4>2. i /= 1
        BY <1>2, <4>1, HeaderParts
      <4>3. i \in 2..n
        BY <4>2
      <4> QED
        BY <1>1, <4>1, <4>3 DEF WriterIs
    <3> QED
      BY <3>1, <3>2, <3>3, <3>4
  <2>2. PICK k \in W : TRUE
    BY <2>1
  <2>3. W = {k}
    BY <1>1, <2>2 DEF WriterIs
  <2> QED
    BY <1>4, <2>3, FS_Singleton DEF W
<1>5. CASE ~(offset < f[9] /\ offset + 1 \notin SeqBytes)
  <2> SUFFICES W = {}
    BY <1>5, FS_EmptySet DEF W
  <2> SUFFICES ASSUME NEW k \in W PROVE FALSE
    OBVIOUS
  <2>1. k \in 1..(n + 1)
    BY <1>1 DEF WriterIs
  <2>2. CASE k = 1
    BY <1>1, <1>2, <1>3, <1>5, <2>2, HeaderParts DEF WriterIs
  <2>3. CASE k = 2
    BY <1>1, <1>2, <1>3, <1>5, <2>3, HeaderParts DEF WriterIs
  <2>4. CASE k >= 3
    <3>1. k - 1 \in 2..n /\ k - 1 + 1 = k
      BY <2>1, <2>4
    <3>2. f[k - 1] <= offset /\ offset < f[k]
      BY <1>1, <3>1 DEF WriterIs
    <3>3. /\ f[2] <= f[k - 1] /\ f[k] <= f[9] /\ f[k - 1] \in Nat /\ f[k] \in Nat
      <4>1. 2 \in 1..9 /\ 9 \in 1..9 /\ k \in 1..9 /\ k - 1 \in 1..9 /\ 2 <= k - 1 /\ k <= 9
        BY <2>1, <2>4
      <4> QED
        BY <4>1, AscendingFacts
    <3> QED
      BY <1>2, <1>3, <1>5, <3>2, <3>3, HeaderParts
  <2> QED
    BY <2>1, <2>2, <2>3, <2>4
<1> QED
  BY <1>4, <1>5

\* One copy writes each byte of a service request.
LEMMA PushWriters ==
  ASSUME NEW r, NEW a \in Nat, NEW b \in Nat, NEW d \in Nat,
         Len(r.id) = a, Len(r.prefix_id) = b, Len(r.options) = d,
         NEW offset \in Nat
  PROVE  Cardinality(Writers(PushParts(r), offset)) =
           IF offset < PushLength(r) /\ offset + 1 \notin SeqBytes THEN 1 ELSE 0
<1> DEFINE strategy == HeaderLen + 3 + a + b
           options == HeaderLen + 4 + a + b
           total == HeaderLen + 4 + a + b + d
           f == <<0, HeaderLen, HeaderLen + 1, HeaderLen + 2, HeaderLen + 2 + a, HeaderLen + 3 + a,
                  strategy, options, total>>
           p == PushParts(r)
<1>1. HeaderLen \in Nat
  BY SizesAssumption
<1>2. /\ f[1] = 0 /\ f[2] = HeaderLen /\ f[3] = HeaderLen + 1 /\ f[4] = HeaderLen + 2
      /\ f[5] = HeaderLen + 2 + a /\ f[6] = HeaderLen + 3 + a /\ f[7] = strategy
      /\ f[8] = options /\ f[9] = total
  OBVIOUS
<1>3. Ascending(f)
  <2>1. /\ 0 \in Nat /\ HeaderLen + 1 \in Nat /\ HeaderLen + 2 \in Nat /\ HeaderLen + 2 + a \in Nat
        /\ HeaderLen + 3 + a \in Nat /\ strategy \in Nat /\ options \in Nat /\ total \in Nat
    BY <1>1
  <2>2. /\ 0 <= HeaderLen /\ HeaderLen <= HeaderLen + 1 /\ HeaderLen + 1 <= HeaderLen + 2
        /\ HeaderLen + 2 <= HeaderLen + 2 + a /\ HeaderLen + 2 + a <= HeaderLen + 3 + a
        /\ HeaderLen + 3 + a <= strategy /\ strategy <= options /\ options <= total
    BY <1>1
  <2> HIDE DEF strategy, options, total
  <2> QED
    BY ONLY <1>1, <2>1, <2>2, NineTuple DEF f
<1> HIDE DEF f
<1>4. /\ f[2] - f[1] = HeaderLen /\ f[3] - f[2] = 1 /\ f[4] - f[3] = 1 /\ f[5] - f[4] = a
      /\ f[6] - f[5] = 1 /\ f[7] - f[6] = b /\ f[8] - f[7] = 1 /\ f[9] - f[8] = d
  BY <1>1, <1>2
<1>5. DOMAIN p = 1..9 /\ PushLength(r) = total
  BY BufferLengths DEF PushParts
<1>6. HeaderLies(p) /\ f[2] = HeaderLen /\ \A i \in 2..8 : Lies(p, i + 1, f[i], f[i + 1] - f[i])
  <2>1. /\ HeaderLies(p) /\ f[2] = HeaderLen /\ Lies(p, 3, f[2], f[3] - f[2])
        /\ Lies(p, 4, f[3], f[4] - f[3]) /\ Lies(p, 5, f[4], f[5] - f[4])
        /\ Lies(p, 6, f[5], f[6] - f[5]) /\ Lies(p, 7, f[6], f[7] - f[6])
        /\ Lies(p, 8, f[7], f[8] - f[7]) /\ Lies(p, 9, f[8], f[9] - f[8])
    BY <1>2, <1>4, PushLayout
  <2> HIDE DEF p
  <2>2. \A i \in 2..8 : i = 2 \/ i = 3 \/ i = 4 \/ i = 5 \/ i = 6 \/ i = 7 \/ i = 8
    OBVIOUS
  <2> QED
    BY <2>1, <2>2
<1>7. Ascending(f) /\ Consecutive(p, 8, f) /\ 8 \in 1..8 /\ f[8 + 1] = f[9]
  BY <1>3, <1>5, <1>6 DEF Consecutive
<1> HIDE DEF p, total
<1>8. Cardinality(Writers(p, offset)) = IF offset < f[9] /\ offset + 1 \notin SeqBytes THEN 1 ELSE 0
  BY <1>7, OneWriter
<1> QED
  BY <1>2, <1>5, <1>8 DEF p

\* One copy writes each byte of published data, but for the data.
LEMMA DataWriters ==
  ASSUME NEW r, NEW a \in Nat, NEW d \in Nat, Len(r.id) = a, Len(r.options) = d,
         Len(r.prefix_id) \in Nat,
         NEW offset \in Nat
  PROVE  Cardinality(Writers(DataParts(r), offset)) =
           IF offset < DataLength(r) /\ offset + 1 \notin SeqBytes THEN 1 ELSE 0
<1> DEFINE total == HeaderLen + 3 + a + d
           f == <<0, HeaderLen, HeaderLen + 1, HeaderLen + 2, HeaderLen + 2 + a, HeaderLen + 3 + a,
                  total, total, total>>
           p == DataParts(r)
<1>1. HeaderLen \in Nat
  BY SizesAssumption
<1>2. /\ f[1] = 0 /\ f[2] = HeaderLen /\ f[3] = HeaderLen + 1 /\ f[4] = HeaderLen + 2
      /\ f[5] = HeaderLen + 2 + a /\ f[6] = HeaderLen + 3 + a /\ f[7] = total /\ f[9] = total
  OBVIOUS
<1>3. Ascending(f)
  <2>1. /\ 0 \in Nat /\ HeaderLen + 1 \in Nat /\ HeaderLen + 2 \in Nat /\ HeaderLen + 2 + a \in Nat
        /\ HeaderLen + 3 + a \in Nat /\ total \in Nat
    BY <1>1
  <2>2. /\ 0 <= HeaderLen /\ HeaderLen <= HeaderLen + 1 /\ HeaderLen + 1 <= HeaderLen + 2
        /\ HeaderLen + 2 <= HeaderLen + 2 + a /\ HeaderLen + 2 + a <= HeaderLen + 3 + a
        /\ HeaderLen + 3 + a <= total /\ total <= total
    BY <1>1
  <2> HIDE DEF total
  <2> QED
    BY ONLY <1>1, <2>1, <2>2, NineTuple DEF f
<1> HIDE DEF f
<1>4. /\ f[2] - f[1] = HeaderLen /\ f[3] - f[2] = 1 /\ f[4] - f[3] = 1 /\ f[5] - f[4] = a
      /\ f[6] - f[5] = 1 /\ f[7] - f[6] = d
  BY <1>1, <1>2
<1>5. DOMAIN p = 1..7 /\ DataLength(r) = total
  BY DataLayout, BufferLengths DEF DataParts
<1>6. HeaderLies(p) /\ f[2] = HeaderLen /\ \A i \in 2..6 : Lies(p, i + 1, f[i], f[i + 1] - f[i])
  <2>1. /\ HeaderLies(p) /\ f[2] = HeaderLen /\ Lies(p, 3, f[2], f[3] - f[2])
        /\ Lies(p, 4, f[3], f[4] - f[3]) /\ Lies(p, 5, f[4], f[5] - f[4])
        /\ Lies(p, 6, f[5], f[6] - f[5]) /\ Lies(p, 7, f[6], f[7] - f[6])
    BY <1>2, <1>4, DataLayout
  <2> HIDE DEF p
  <2>2. \A i \in 2..6 : i = 2 \/ i = 3 \/ i = 4 \/ i = 5 \/ i = 6
    OBVIOUS
  <2> QED
    BY <2>1, <2>2
<1> HIDE DEF p, total
<1>7. Ascending(f) /\ Consecutive(p, 6, f) /\ 6 \in 1..8 /\ f[6 + 1] = f[9]
  BY <1>2, <1>3, <1>5, <1>6 DEF Consecutive
<1>8. Cardinality(Writers(p, offset)) = IF offset < f[9] /\ offset + 1 \notin SeqBytes THEN 1 ELSE 0
  BY <1>7, OneWriter
<1> QED
  BY <1>2, <1>5, <1>8 DEF p

\* What has been sent was asked for by a call.
CallInv == nonblocking /= NotSent => call \in ServiceCalls \union DataCalls

LEMMA CallInvNext == CallInv /\ [Next]_vars => CallInv'
<1> SUFFICES ASSUME CallInv, [Next]_vars PROVE CallInv'
  OBVIOUS
<1>1. CASE \E c \in ServiceCalls \union DataCalls, heap, nbHeap \in Heap : Issue(c, heap, nbHeap)
  BY <1>1 DEF Issue, CallInv
<1>2. CASE Forget
  BY <1>2 DEF Forget, CallInv
<1>3. CASE UNCHANGED vars
  BY <1>3 DEF vars, CallInv
<1> QED
  BY <1>1, <1>2, <1>3 DEF Next, NodeSends, Peek, ReadEvent, ReadFails

LEMMA CopiesOfCalls == CallInv => CopiesFillTheBuffer
<1> SUFFICES ASSUME CallInv, nonblocking /= NotSent PROVE CopiesFillTheBuffer
  BY DEF CopiesFillTheBuffer
<1> DEFINE r == Request(call)
           a == Len(r.id)
           b == Len(r.prefix_id)
           d == Len(r.options)
<1>1. a \in Nat /\ b \in Nat /\ d \in Nat
  BY RequestFacts DEF CallInv
<1> HIDE DEF r
<1>2. HeaderLen \in Nat /\ MaxLen \in Nat
  BY SizesAssumption
<1>3. NBLength(r) \in Nat
  <2> HIDE DEF a, b, d
  <2>1. Len(r.id) = a /\ Len(r.prefix_id) = b /\ Len(r.options) = d
    BY DEF a, b, d
  <2>2. PushLength(r) = HeaderLen + 4 + a + b + d /\ DataLength(r) = HeaderLen + 3 + a + d
    BY <1>1, <2>1, BufferLengths
  <2> QED
    BY <1>1, <1>2, <2>2 DEF NBLength
<1>4. ASSUME NEW offset \in 0..(NBLength(r) + MaxLen)
      PROVE  Cardinality(Writers(NBParts(r), offset)) =
               IF offset < NBLength(r) /\ offset + 1 \notin SeqBytes THEN 1 ELSE 0
  <2>1. offset \in Nat
    BY <1>2, <1>3
  <2>2. CASE r.type = DataType
    BY <1>1, <2>1, <2>2, DataWriters DEF NBParts, NBLength
  <2>3. CASE r.type /= DataType
    BY <1>1, <2>1, <2>3, PushWriters DEF NBParts, NBLength
  <2> QED
    BY <2>2, <2>3
<1> QED
  BY <1>4 DEF CopiesFillTheBuffer, Writers, r

\* Every byte of the buffer that push and publish_data allocate, but for those of
\* nlmsg_seq, is written once, and none behind it, for parts of any length.
THEOREM BufferIsFilled == Spec => []CopiesFillTheBuffer
<1>1. Init => CallInv
  BY DEF Init, CallInv
<1> QED
  BY <1>1, CallInvNext, CopiesOfCalls, PTL DEF Spec

(***************************************************************************)
(* The bytes of a request                                                  *)
(*                                                                         *)
(* Both libraries lay the same pieces one behind the other, the blocking   *)
(* one by concatenation, the non-blocking one by copies to offsets.  What  *)
(* stands where determines the bytes, and is all the node looks at.        *)
(***************************************************************************)

Holds(s, from, piece) == \A j \in 1..Len(piece) : s[from + j] = piece[j]

\* The n pieces of p go to the offsets f.
Offsets(B, p, f, n) ==
  /\ n \in 1..8 /\ Ascending(f) /\ f[n + 1] = f[9]
  /\ \A i \in 1..n : p[i] \in Seq(B) /\ f[i + 1] = f[i] + Len(p[i])

\* s consists of the first k pieces.
Gathers(B, s, p, f, k) ==
  /\ s \in Seq(B) /\ Len(s) = f[k + 1]
  /\ \A i \in 1..k : Holds(s, f[i], p[i])

\* What follows from it: the offsets do not go down.
LaidOut(B, p, f, n) ==
  /\ n \in 1..8 /\ f[1] = 0
  /\ \A i \in 1..9 : f[i] \in Nat
  /\ \A i, j \in 1..9 : i <= j => f[i] <= f[j]
  /\ \A i \in 1..n : i \in 1..9 /\ i + 1 \in 1..9
  /\ \A i \in 1..n : p[i] \in Seq(B) /\ Len(p[i]) \in Nat /\ f[i + 1] = f[i] + Len(p[i])

LEMMA OffsetFacts ==
  ASSUME NEW B, NEW p, NEW f, NEW n, Offsets(B, p, f, n)
  PROVE  LaidOut(B, p, f, n)
<1>1. n \in 1..8 /\ Ascending(f) /\ \A i \in 1..n : p[i] \in Seq(B) /\ f[i + 1] = f[i] + Len(p[i])
  BY DEF Offsets
<1>2. /\ \A i \in 1..9 : f[i] \in Nat
      /\ \A i, j \in 1..9 : i <= j => f[i] <= f[j]
  BY <1>1, AscendingFacts
<1>3. f[1] = 0
  BY <1>1 DEF Ascending
<1>4. \A i \in 1..n : i \in 1..9 /\ i + 1 \in 1..9
  BY <1>1
<1>5. \A i \in 1..n : Len(p[i]) \in Nat
  BY <1>1
<1> QED
  BY <1>1, <1>2, <1>3, <1>4, <1>5 DEF LaidOut

LEMMA GatherFirst ==
  ASSUME NEW B, NEW p, NEW f, NEW n, Offsets(B, p, f, n)
  PROVE  Gathers(B, p[1], p, f, 1)
<1>o. LaidOut(B, p, f, n)
  BY OffsetFacts
<1>1. 1 \in 1..n
  BY <1>o DEF LaidOut
<1>2. p[1] \in Seq(B) /\ f[1] = 0 /\ f[1 + 1] = 0 + Len(p[1]) /\ Len(p[1]) \in Nat
  BY <1>1, <1>o DEF LaidOut
<1>3. Holds(p[1], f[1], p[1])
  BY <1>2 DEF Holds
<1>4. \A i \in 1..1 : i = 1
  OBVIOUS
<1> QED
  BY <1>2, <1>3, <1>4 DEF Gathers

\* One more piece behind the others.
LEMMA GatherNext ==
  ASSUME NEW B, NEW p, NEW f, NEW n, Offsets(B, p, f, n),
         NEW k \in 1..(n - 1), NEW s, Gathers(B, s, p, f, k)
  PROVE  Gathers(B, s \o p[k + 1], p, f, k + 1)
<1>o. LaidOut(B, p, f, n)
  BY OffsetFacts
<1> DEFINE t == p[k + 1]
           u == s \o t
<1>0. n \in 1..8 /\ k \in Nat /\ k >= 1 /\ k + 1 \in 1..n /\ \A i \in 1..k : i \in 1..n
  BY <1>o DEF LaidOut
<1>1. t \in Seq(B) /\ Len(t) \in Nat /\ f[k + 1 + 1] = f[k + 1] + Len(t)
  BY <1>0, <1>o DEF LaidOut
<1>2. s \in Seq(B) /\ Len(s) = f[k + 1]
  BY DEF Gathers
<1> HIDE DEF t
<1>3. /\ u \in Seq(B) /\ Len(u) = Len(s) + Len(t)
      /\ \A j \in 1..Len(s) : u[j] = s[j]
      /\ \A j \in 1..Len(t) : u[Len(s) + j] = t[j]
  <2>1. s \in Seq(B) /\ t \in Seq(B)
    BY <1>1, <1>2
  <2>2. /\ s \o t \in Seq(B) /\ Len(s \o t) = Len(s) + Len(t)
        /\ \A j \in 1..Len(s) : (s \o t)[j] = s[j]
        /\ \A j \in 1..Len(t) : (s \o t)[Len(s) + j] = t[j]
    BY ONLY <2>1, ConcatFacts
  <2> QED
    BY <2>2
<1> HIDE DEF u
<1>4. ASSUME NEW i \in 1..k PROVE Holds(u, f[i], p[i])
  <2>1. Holds(s, f[i], p[i])
    BY DEF Gathers
  <2>2. /\ f[i] \in Nat /\ f[i + 1] \in Nat /\ f[k + 1] \in Nat /\ Len(p[i]) \in Nat
        /\ f[i + 1] = f[i] + Len(p[i]) /\ f[i + 1] <= f[k + 1]
    <3>1. i \in 1..n /\ i + 1 \in 1..9 /\ k + 1 \in 1..9 /\ i + 1 <= k + 1 /\ i \in 1..9
      BY <1>0
    <3> QED
      BY <3>1, <1>o DEF LaidOut
  <2>3. ASSUME NEW j \in 1..Len(p[i]) PROVE u[f[i] + j] = p[i][j]
    <3>1. f[i] + j \in 1..Len(s)
      BY <1>2, <2>2
    <3>2. s[f[i] + j] = p[i][j]
      BY <2>1 DEF Holds
    <3> QED
      BY <1>3, <3>1, <3>2
  <2> QED
    BY <2>3 DEF Holds
<1>5. Holds(u, f[k + 1], p[k + 1])
  BY <1>2, <1>3 DEF Holds, t
<1>6. \A i \in 1..(k + 1) : i \in 1..k \/ i = k + 1
  BY <1>0
<1>7. Len(u) = f[k + 1 + 1]
  BY <1>1, <1>2, <1>3
<1> QED
  BY <1>3, <1>4, <1>5, <1>6, <1>7 DEF Gathers, u, t

\* Where a byte is, and in which piece.
LEMMA PieceOf ==
  ASSUME NEW B, NEW p, NEW f, NEW n, Offsets(B, p, f, n), NEW y \in 1..f[9]
  PROVE  \E i \in 1..n : /\ f[i] \in Nat /\ y - f[i] \in 1..Len(p[i]) /\ f[i] + (y - f[i]) = y
                         /\ \A s : Gathers(B, s, p, f, n) => s[y] = p[i][y - f[i]]
<1>o. LaidOut(B, p, f, n)
  BY OffsetFacts
<1>1. f[9] \in Nat /\ n \in 1..8 /\ Ascending(f) /\ f[n + 1] = f[9]
  BY <1>o DEF Offsets, LaidOut
<1>2. y - 1 \in Nat /\ y - 1 < f[9] /\ y \in Nat
  BY <1>1
<1>3. PICK i \in 1..n : f[i] <= y - 1 /\ y - 1 < f[i + 1]
  BY <1>1, <1>2, InSomePiece
<1>4. f[i] \in Nat /\ Len(p[i]) \in Nat /\ f[i + 1] = f[i] + Len(p[i])
  BY <1>o DEF LaidOut
<1>5. y - f[i] \in 1..Len(p[i]) /\ f[i] + (y - f[i]) = y
  BY <1>2, <1>3, <1>4
<1>6. ASSUME NEW s, Gathers(B, s, p, f, n) PROVE s[y] = p[i][y - f[i]]
  <2>1. Holds(s, f[i], p[i])
    BY <1>6 DEF Gathers
  <2>2. s[f[i] + (y - f[i])] = p[i][y - f[i]]
    BY <1>5, <2>1 DEF Holds
  <2> QED
    BY <1>5, <2>2
<1> QED
  BY <1>4, <1>5, <1>6

\* Copies to the offsets leave the pieces in the buffer, and nlmsg_seq as it was.
LEMMA CopiedGathers ==
  ASSUME NEW B, HeaderByte \subseteq B, NEW p, NEW f, NEW n, Offsets(B, p, f, n), NEW m \in 1..n,
         NEW length \in Nat, NEW heap \in Heap, p[1] = Header(length, heap),
         NEW parts, DOMAIN parts = 1..(m + 1),
         parts[1] = Part(0, BeforeSeq(length)), parts[2] = Part(SeqOffset + SeqLen, AfterSeq),
         \A i \in 2..m : parts[i + 1] = Part(f[i], p[i])
  PROVE  Gathers(B, Copied(parts, f[m + 1], heap), p, f, m)
<1>o. LaidOut(B, p, f, n)
  BY OffsetFacts
<1> DEFINE s == Copied(parts, f[m + 1], heap)
           h == Header(length, heap)
<1>0. /\ n \in 1..8 /\ m \in Nat /\ m >= 1 /\ m <= 8 /\ m \in 1..8
      /\ \A i \in 1..m : i \in 1..n /\ i \in 1..9 /\ i + 1 \in 1..9 /\ i + 1 <= m + 1
      /\ m + 1 \in 1..9
  <2>1. n \in 1..8
    BY <1>o DEF LaidOut
  <2> QED
    BY <2>1
<1>t. f[m + 1] \in Nat /\ \A i \in 1..9 : f[i] \in Nat
  BY <1>0, <1>o DEF LaidOut
<1>1. ASSUME NEW i \in 1..m
      PROVE  /\ f[i] \in Nat /\ f[i + 1] \in Nat /\ Len(p[i]) \in Nat
             /\ f[i + 1] = f[i] + Len(p[i]) /\ f[i + 1] <= f[m + 1] /\ p[i] \in Seq(B)
  <2>1. i \in 1..n /\ i \in 1..9 /\ i + 1 \in 1..9 /\ i + 1 <= m + 1
    BY <1>0
  <2> QED
    BY <1>0, <2>1, <1>o DEF LaidOut
<1>h. /\ h \in Seq(B) /\ Len(h) = HeaderLen
      /\ \A i \in 1..SeqOffset : h[i] = BeforeSeq(length)[i]
      /\ \A i \in SeqBytes : h[i] = heap
      /\ \A i \in 1..Len(AfterSeq) : h[SeqOffset + SeqLen + i] = AfterSeq[i]
  <2>1. HeaderIs(B, h, length, heap)
    BY HeaderLaid
  <2> QED
    BY <2>1 DEF HeaderIs
<1>f. p[1] = h /\ f[1] = 0 /\ f[2] = HeaderLen
  <2>1. 1 \in 1..m /\ 1 + 1 = 2 /\ f[1] = 0
    BY <1>0, <1>o DEF LaidOut
  <2> QED
    BY <1>1, <1>h, <2>1, HeaderParts
<1> HIDE DEF h
<1>2. Consecutive(parts, m, f)
  <2>1. HeaderLies(parts)
    BY PartLies, SmallParts DEF HeaderLies
  <2>2. ASSUME NEW i \in 2..m PROVE Lies(parts, i + 1, f[i], f[i + 1] - f[i])
    <3>1. Lies(parts, i + 1, f[i], Len(p[i]))
      BY PartLies
    <3>2. i \in 1..m
      BY <1>0
    <3>3. f[i + 1] - f[i] = Len(p[i])
      BY <1>1, <3>2
    <3> QED
      BY <3>1, <3>3
  <2> QED
    BY <1>f, <2>1, <2>2 DEF Consecutive
<1>3. ASSUME NEW x \in Nat PROVE WriterIs(parts, m, f, Writers(parts, x), x)
  <2>1. Ascending(f)
    BY DEF Offsets
  <2> QED
    BY <1>0, <1>2, <2>1, WriterOf
<1>w. ASSUME NEW y \in 1..f[m + 1], NEW k \in Writers(parts, y - 1)
      PROVE  s[y] = parts[k].bytes[y - parts[k].offset]
  <2> DEFINE W == Writers(parts, y - 1)
  <2>1. y - 1 \in Nat
    BY <1>t
  <2>2. /\ \A l \in W : l = k
        /\ k \in Int /\ W /= {} /\ k \in W
    BY <1>0, <1>3, <2>1 DEF WriterIs
  <2>3. Max(W) = k
    <3>1. k >= k
      BY <2>2
    <3> HIDE DEF W
    <3> QED
      BY ONLY <2>2, <3>1 DEF Max
  <2>4. s[y] = IF W = {} THEN heap ELSE parts[Max(W)].bytes[y - parts[Max(W)].offset]
    BY DEF Copied
  <2> HIDE DEF W, s
  <2> QED
    BY <2>2, <2>3, <2>4
<1>n. ASSUME NEW y \in 1..f[m + 1], Writers(parts, y - 1) = {} PROVE s[y] = heap
  BY <1>n DEF Copied
<1> HIDE DEF s
<1>a. ASSUME NEW y \in 1..HeaderLen PROVE s[y] = h[y]
  <2>0. y \in Nat /\ y - 1 \in Nat /\ y - 1 < HeaderLen
    BY HeaderParts
  <2>1. y \in 1..f[m + 1]
    <3>1. 1 \in 1..m /\ 1 + 1 = 2
      BY <1>0
    <3>2. HeaderLen <= f[m + 1]
      BY <1>1, <1>f, <3>1
    <3> QED
      BY <1>t, <3>2, HeaderParts
  <2> DEFINE W == Writers(parts, y - 1)
  <2>w. WriterIs(parts, m, f, W, y - 1)
    BY <1>3, <2>0
  <2>2. CASE y <= SeqOffset
    <3>1. y - 1 < SeqOffset /\ y \in 1..SeqOffset
      BY <2>0, <2>2, HeaderParts
    <3>2. 1 \in W
      BY <2>w, <3>1 DEF WriterIs
    <3>3. s[y] = BeforeSeq(length)[y - 0]
      BY <1>w, <2>1, <3>2 DEF Part
    <3> QED
      BY <1>h, <2>0, <3>1, <3>3
  <2>3. CASE y \in SeqBytes
    <3>1. SeqOffset <= y - 1 /\ y - 1 < SeqOffset + SeqLen
      BY <2>0, <2>3, HeaderParts DEF SeqBytes
    <3>2. ASSUME NEW k \in W PROVE FALSE
      <4>1. k \in 1..(m + 1) /\ k /= 1 /\ k /= 2
        BY <2>w, <3>1, <2>0, HeaderParts DEF WriterIs
      <4>2. k - 1 \in 2..m /\ k - 1 + 1 = k
        BY <1>0, <4>1
      <4>3. f[k - 1] <= y - 1
        BY <2>w, <4>2 DEF WriterIs
      <4>4. f[2] <= f[k - 1] /\ f[k - 1] \in Nat
        <5> DEFINE j == k - 1
        <5>0. j \in 2..m
          BY <4>2
        <5> HIDE DEF j
        <5>1. 2 \in 1..9 /\ j \in 1..9 /\ 2 <= j
          BY ONLY <1>0, <5>0
        <5>2. f[2] <= f[j] /\ f[j] \in Nat
          BY <5>1, <1>o DEF LaidOut
        <5> QED
          BY <5>2 DEF j
      <4> QED
        BY <1>f, <2>0, <4>3, <4>4, HeaderParts
    <3>3. s[y] = heap
      BY <1>n, <2>1, <3>2
    <3> QED
      BY <1>h, <2>3, <3>3
  <2>4. CASE y > SeqOffset + SeqLen
    <3>1. SeqOffset + SeqLen <= y - 1
      BY <2>0, <2>4, HeaderParts
    <3>2. 2 \in W
      BY <2>0, <2>w, <3>1 DEF WriterIs
    <3>3. s[y] = AfterSeq[y - (SeqOffset + SeqLen)]
      BY <1>w, <2>1, <3>2 DEF Part
    <3>4. y - (SeqOffset + SeqLen) \in 1..Len(AfterSeq)
          /\ SeqOffset + SeqLen + (y - (SeqOffset + SeqLen)) = y
      BY <2>0, <2>4, HeaderParts, SmallParts
    <3> QED
      BY <1>h, <3>3, <3>4
  <2>5. y <= SeqOffset \/ y \in SeqBytes \/ y > SeqOffset + SeqLen
    BY <2>0, HeaderParts DEF SeqBytes
  <2> QED
    BY <2>2, <2>3, <2>4, <2>5
<1>4. ASSUME NEW i \in 1..m, NEW j \in 1..Len(p[i]) PROVE s[f[i] + j] = p[i][j]
  <2>1. CASE i = 1
    <3>1. j \in 1..HeaderLen /\ f[1] + j = j
      BY <1>f, <1>h, <2>1, HeaderParts
    <3> QED
      BY <1>a, <1>f, <2>1, <3>1
  <2>2. CASE i /= 1
    <3> DEFINE from == f[i]
               end == f[i + 1]
               total == f[m + 1]
               size == Len(p[i])
               y == f[i] + j
    <3>1. /\ from \in Nat /\ end \in Nat /\ total \in Nat /\ size \in Nat
          /\ end = from + size /\ end <= total /\ j \in 1..size /\ y = from + j
      BY <1>1, <1>t
    <3>i. i \in 2..m
      BY <1>0, <2>2
    <3> HIDE DEF from, end, total, size, y
    <3>2. y - 1 \in Nat /\ from <= y - 1 /\ y - 1 < end /\ y \in 1..total /\ y - from = j
      BY ONLY <3>1
    <3>3. i + 1 \in Writers(parts, y - 1)
      BY <1>3, <3>2, <3>i DEF WriterIs, from, end
    <3>4. s[y] = parts[i + 1].bytes[y - parts[i + 1].offset]
      BY <1>w, <3>2, <3>3 DEF total
    <3>5. parts[i + 1].offset = from /\ parts[i + 1].bytes = p[i]
      <4>1. parts[i + 1] = Part(f[i], p[i])
        BY <3>i
      <4> QED
        BY <4>1 DEF Part, from
    <3>6. s[y] = p[i][j]
      BY <3>2, <3>4, <3>5
    <3> QED
      BY <3>6 DEF y
  <2> QED
    BY <2>1, <2>2
<1>5. ASSUME NEW y \in 1..f[m + 1] PROVE s[y] \in B
  <2>1. PICK i \in 1..m : f[i] <= y - 1 /\ y - 1 < f[i + 1]
    <3>1. y - 1 \in Nat /\ y - 1 < f[m + 1]
      <4>1. \A n1 \in Nat : \A y1 \in 1..n1 : y1 - 1 \in Nat /\ y1 - 1 < n1
        OBVIOUS
      <4> QED
        BY ONLY <1>5, <1>t, <4>1
    <3> DEFINE g == [i \in 1..9 |-> IF i <= m THEN f[i] ELSE f[m + 1]]
    <3>2. \A i \in 1..9 : f[i] \in Nat
      BY <1>o DEF LaidOut
    <3>3. g \in [1..9 -> Nat] /\ g[1] = 0 /\ g[m + 1] = g[9] /\ g[9] = f[m + 1]
      <4>1. f[1] = 0 /\ 1 <= m /\ ~(m + 1 <= m) /\ ~(9 <= m)
        BY <1>0, <1>o DEF LaidOut
      <4>2. g \in [1..9 -> Nat]
        BY <1>t
      <4>3. 1 \in 1..9 /\ 9 \in 1..9
        OBVIOUS
      <4> QED
        BY <1>0, <4>1, <4>2, <4>3
    <3>4. ASSUME NEW i \in 1..8 PROVE g[i] <= g[i + 1]
      <4>1. i \in 1..9 /\ i + 1 \in 1..9 /\ i <= i + 1
        OBVIOUS
      <4>2. f[i] <= f[i + 1]
        BY <4>1, <1>o DEF LaidOut
      <4>3. i <= m => f[i] <= f[m + 1]
        <5>1. i <= m => i <= m + 1
          BY <1>0
        <5> QED
          BY <1>0, <4>1, <5>1, <1>o DEF LaidOut
      <4>4. f[i] \in Nat /\ f[i + 1] \in Nat /\ f[m + 1] \in Nat
        BY <1>t, <4>1
      <4>5. /\ g[i] = IF i <= m THEN f[i] ELSE f[m + 1]
            /\ g[i + 1] = IF i + 1 <= m THEN f[i + 1] ELSE f[m + 1]
        BY <4>1
      <4> HIDE DEF g
      <4>6. i + 1 <= m => i <= m
        BY <1>0
      <4> QED
        BY <4>2, <4>3, <4>4, <4>5, <4>6
    <3>5. Ascending(g)
      BY <3>3, <3>4 DEF Ascending
    <3>6. \A i \in 1..m : g[i] = f[i] /\ g[i + 1] = f[i + 1]
      <4>1. ASSUME NEW i \in 1..m PROVE g[i] = f[i] /\ g[i + 1] = f[i + 1]
        <5>1. i \in 1..9 /\ i + 1 \in 1..9 /\ (i + 1 <= m \/ i + 1 = m + 1)
          BY <1>0
        <5> QED
          BY <1>0, <5>1
      <4> QED
        BY <4>1
    <3> HIDE DEF g
    <3>7. \E i \in 1..m : g[i] <= y - 1 /\ y - 1 < g[i + 1]
      <4>1. m \in 1..8
        BY <1>0
      <4> QED
        BY <3>1, <3>3, <3>5, <4>1, InSomePiece
    <3> QED
      BY <3>6, <3>7
  <2>b. y \in Nat
    BY <1>t
  <2>a. f[i] \in Nat /\ f[i + 1] = f[i] + Len(p[i]) /\ Len(p[i]) \in Nat /\ y \in Nat
    BY <1>1, <2>b
  <2>2. y - f[i] \in 1..Len(p[i]) /\ f[i] + (y - f[i]) = y
    BY <2>1, <2>a
  <2>3. s[f[i] + (y - f[i])] = p[i][y - f[i]]
    BY <1>4, <2>2
  <2>4. p[i][y - f[i]] \in B
    BY <1>1, <2>2
  <2> QED
    BY <2>2, <2>3, <2>4
<1>6. s \in Seq(B) /\ Len(s) = f[m + 1]
  <2>1. DOMAIN s = 1..f[m + 1] /\ s = [y \in 1..f[m + 1] |-> s[y]]
    BY DEF Copied, s
  <2>2. s \in [1..f[m + 1] -> B]
    BY <1>5, <2>1
  <2>3. \A k \in Nat : \A z \in [1..k -> B] : z \in Seq(B) /\ Len(z) = k
    OBVIOUS
  <2> QED
    BY <1>t, <2>2, <2>3
<1>7. \A i \in 1..m : Holds(s, f[i], p[i])
  BY <1>4 DEF Holds
<1> QED
  BY <1>6, <1>7 DEF Gathers, s

LEMMA GatherStep ==
  ASSUME NEW B, NEW p, NEW f, NEW n, Offsets(B, p, f, n),
         NEW k, NEW s, Gathers(B, s, p, f, k), NEW l, k \in 1..(n - 1), l = k + 1,
         NEW t, t = p[l]
  PROVE  Gathers(B, s \o t, p, f, l)
BY GatherNext

\* What a library is given to send.
WireTypes ==
  {"PUBLISH_SCOPE", "PUBLISH_INFO", "UNPUBLISH_SCOPE", "UNPUBLISH_INFO", "SUBSCRIBE_SCOPE",
   "SUBSCRIBE_INFO", "UNSUBSCRIBE_SCOPE", "UNSUBSCRIBE_INFO", "PUBLISH_DATA"}
WireByte ==
  HeaderByte \union Nat \union Text \union WireTypes \union {"strategy"}

WellFormed(r) ==
  /\ r.type \in WireTypes
  /\ r.id \in Seq(Text) /\ r.prefix_id \in Seq(Text) /\ r.options \in Seq(Text)
  /\ r.data \in Seq(Text)
  /\ r.type /= DataType => r.data = <<>>

Pieces8(p) == p[1] \o p[2] \o p[3] \o p[4] \o p[5] \o p[6] \o p[7] \o p[8]
Pieces7(p) == p[1] \o p[2] \o p[3] \o p[4] \o p[5] \o p[6] \o p[7]

LEMMA SevenPieces ==
  ASSUME NEW B, NEW p, NEW f, NEW n, Offsets(B, p, f, n), n = 7 \/ n = 8
  PROVE  Gathers(B, Pieces7(p), p, f, 7)
<1> DEFINE s2 == p[1] \o p[2]
           s3 == s2 \o p[3]
           s4 == s3 \o p[4]
           s5 == s4 \o p[5]
           s6 == s5 \o p[6]
           s7 == s6 \o p[7]
<1>0. n - 1 >= 6 /\ n - 1 \in Nat
  OBVIOUS
<1>1. Gathers(B, p[1], p, f, 1)
  BY GatherFirst
<1>2. Gathers(B, s2, p, f, 2)
  BY <1>0, <1>1, GatherStep
<1> HIDE DEF s2
<1>3. Gathers(B, s3, p, f, 3)
  BY <1>0, <1>2, GatherStep
<1> HIDE DEF s3
<1>4. Gathers(B, s4, p, f, 4)
  BY <1>0, <1>3, GatherStep
<1> HIDE DEF s4
<1>5. Gathers(B, s5, p, f, 5)
  BY <1>0, <1>4, GatherStep
<1> HIDE DEF s5
<1>6. Gathers(B, s6, p, f, 6)
  BY <1>0, <1>5, GatherStep
<1> HIDE DEF s6
<1>7. Gathers(B, s7, p, f, 7)
  BY <1>0, <1>6, GatherStep
<1> HIDE DEF s7
<1>8. Pieces7(p) = s7
  BY DEF Pieces7, s2, s3, s4, s5, s6, s7
<1> QED
  BY <1>7, <1>8

LEMMA EightPieces ==
  ASSUME NEW B, NEW p, NEW f, Offsets(B, p, f, 8)
  PROVE  Gathers(B, Pieces8(p), p, f, 8)
<1>1. Gathers(B, Pieces7(p), p, f, 7)
  BY SevenPieces
<1>2. Gathers(B, Pieces7(p) \o p[8], p, f, 8)
  BY <1>1, GatherStep
<1>3. Pieces8(p) = Pieces7(p) \o p[8]
  BY DEF Pieces7, Pieces8
<1> QED
  BY <1>2, <1>3

\* The pieces of a service request, and where they go.
ServicePieces(r, heap) ==
  << Header(PushLength(r), heap), <<r.type>>, LengthByte(r.id), r.id, LengthByte(r.prefix_id),
     r.prefix_id, <<"strategy">>, r.options >>
ServiceOffsets(a, b, d) ==
  << 0, HeaderLen, HeaderLen + 1, HeaderLen + 2, HeaderLen + 2 + a, HeaderLen + 3 + a,
     HeaderLen + 3 + a + b, HeaderLen + 4 + a + b, HeaderLen + 4 + a + b + d >>

\* The pieces of published data.
DataPieces(r, heap) ==
  << Header(DataLength(r) + Len(r.data), heap), <<r.type>>, LengthByte(r.id), r.id, <<"strategy">>,
     r.options, r.data >>
DataOffsets(a, d, e) ==
  << 0, HeaderLen, HeaderLen + 1, HeaderLen + 2, HeaderLen + 2 + a, HeaderLen + 3 + a,
     HeaderLen + 3 + a + d, HeaderLen + 3 + a + d + e, HeaderLen + 3 + a + d + e >>

\* The lengths of the fields of a request, and the bytes of its small pieces.
LEMMA FieldFacts ==
  ASSUME NEW r, WellFormed(r)
  PROVE  /\ Len(r.id) \in Nat /\ Len(r.prefix_id) \in Nat /\ Len(r.options) \in Nat
         /\ Len(r.data) \in Nat
         /\ r.id \in Seq(WireByte) /\ r.prefix_id \in Seq(WireByte)
         /\ r.options \in Seq(WireByte) /\ r.data \in Seq(WireByte)
         /\ <<r.type>> \in Seq(WireByte) /\ <<"strategy">> \in Seq(WireByte)
<1>1. \A s \in Seq(Text) : Len(s) \in Nat /\ s \in Seq(WireByte)
  BY DEF WireByte
<1>2. \A x \in WireByte : <<x>> \in Seq(WireByte)
  OBVIOUS
<1>3. r.type \in WireByte /\ "strategy" \in WireByte
  BY DEF WellFormed, WireByte
<1> QED
  BY <1>1, <1>2, <1>3 DEF WellFormed

LEMMA HeaderFacts ==
  ASSUME NEW n \in Nat, NEW heap \in Heap
  PROVE  Header(n, heap) \in Seq(WireByte) /\ Len(Header(n, heap)) = HeaderLen
<1>1. HeaderIs(WireByte, Header(n, heap), n, heap)
  BY HeaderLaid DEF WireByte
<1> QED
  BY <1>1 DEF HeaderIs

LEMMA LengthByteFacts ==
  ASSUME NEW s, Len(s) \in Nat
  PROVE  LengthByte(s) \in Seq(WireByte) /\ Len(LengthByte(s)) = 1
<1>1. IdLen \in Nat /\ IdLen > 0 /\ ByteRange \in Nat /\ ByteRange > 0
  BY SizesAssumption
<1>2. Fragments(s) \in Nat
  BY <1>1 DEF Fragments
<1>3. Fragments(s) % ByteRange \in WireByte
  BY <1>1, <1>2 DEF WireByte
<1> QED
  BY <1>3 DEF LengthByte

LEMMA ServiceLaid ==
  ASSUME NEW r, WellFormed(r), NEW heap \in Heap,
         NEW a, NEW b, NEW d, a = Len(r.id), b = Len(r.prefix_id), d = Len(r.options)
  PROVE  Offsets(WireByte, ServicePieces(r, heap), ServiceOffsets(a, b, d), 8)
<1> DEFINE p == ServicePieces(r, heap)
           f == ServiceOffsets(a, b, d)
<1>1. HeaderLen \in Nat /\ a \in Nat /\ b \in Nat /\ d \in Nat
  BY FieldFacts, SizesAssumption
<1>2. PushLength(r) \in Nat
  <2>1. PushLength(r) = HeaderLen + 4 + a + b + d
    BY <1>1, BufferLengths
  <2> QED
    BY ONLY <1>1, <2>1
<1>3. Ascending(f)
  <2>1. /\ 0 \in Nat /\ HeaderLen + 1 \in Nat /\ HeaderLen + 2 \in Nat /\ HeaderLen + 2 + a \in Nat
        /\ HeaderLen + 3 + a \in Nat /\ HeaderLen + 3 + a + b \in Nat
        /\ HeaderLen + 4 + a + b \in Nat /\ HeaderLen + 4 + a + b + d \in Nat
    BY ONLY <1>1
  <2>2. /\ 0 <= HeaderLen /\ HeaderLen <= HeaderLen + 1 /\ HeaderLen + 1 <= HeaderLen + 2
        /\ HeaderLen + 2 <= HeaderLen + 2 + a /\ HeaderLen + 2 + a <= HeaderLen + 3 + a
        /\ HeaderLen + 3 + a <= HeaderLen + 3 + a + b /\ HeaderLen + 3 + a + b <= HeaderLen + 4 + a + b
        /\ HeaderLen + 4 + a + b <= HeaderLen + 4 + a + b + d
    BY ONLY <1>1
  <2> QED
    BY ONLY <1>1, <2>1, <2>2, NineTuple DEF f, ServiceOffsets
<1>4. /\ p[1] = Header(PushLength(r), heap) /\ p[2] = <<r.type>> /\ p[3] = LengthByte(r.id)
      /\ p[4] = r.id /\ p[5] = LengthByte(r.prefix_id) /\ p[6] = r.prefix_id
      /\ p[7] = <<"strategy">> /\ p[8] = r.options
  BY DEF ServicePieces
<1>5. /\ f[1] = 0 /\ f[2] = HeaderLen /\ f[3] = HeaderLen + 1 /\ f[4] = HeaderLen + 2
      /\ f[5] = HeaderLen + 2 + a /\ f[6] = HeaderLen + 3 + a /\ f[7] = HeaderLen + 3 + a + b
      /\ f[8] = HeaderLen + 4 + a + b /\ f[9] = HeaderLen + 4 + a + b + d
  BY DEF ServiceOffsets
<1> HIDE DEF p, f
<1>6. /\ p[1] \in Seq(WireByte) /\ p[2] \in Seq(WireByte) /\ p[3] \in Seq(WireByte)
      /\ p[4] \in Seq(WireByte) /\ p[5] \in Seq(WireByte) /\ p[6] \in Seq(WireByte)
      /\ p[7] \in Seq(WireByte) /\ p[8] \in Seq(WireByte)
  BY <1>1, <1>2, <1>4, FieldFacts, HeaderFacts, LengthByteFacts
<1>7. /\ Len(p[1]) = HeaderLen /\ Len(p[2]) = 1 /\ Len(p[3]) = 1 /\ Len(p[4]) = a
      /\ Len(p[5]) = 1 /\ Len(p[6]) = b /\ Len(p[7]) = 1 /\ Len(p[8]) = d
  BY <1>1, <1>2, <1>4, HeaderFacts, LengthByteFacts, SmallParts
<1>8. /\ f[2] = f[1] + Len(p[1]) /\ f[3] = f[2] + Len(p[2]) /\ f[4] = f[3] + Len(p[3])
      /\ f[5] = f[4] + Len(p[4]) /\ f[6] = f[5] + Len(p[5]) /\ f[7] = f[6] + Len(p[6])
      /\ f[8] = f[7] + Len(p[7]) /\ f[9] = f[8] + Len(p[8])
  BY ONLY <1>1, <1>5, <1>7
<1>9. \A i \in 1..8 : i = 1 \/ i = 2 \/ i = 3 \/ i = 4 \/ i = 5 \/ i = 6 \/ i = 7 \/ i = 8
  OBVIOUS
<1>10. \A i \in 1..8 : p[i] \in Seq(WireByte) /\ f[i + 1] = f[i] + Len(p[i])
  BY <1>6, <1>8, <1>9
<1>11. Offsets(WireByte, p, f, 8)
  BY <1>3, <1>10 DEF Offsets
<1> QED
  BY <1>11 DEF p, f

LEMMA DataLaid ==
  ASSUME NEW r, WellFormed(r), NEW heap \in Heap,
         NEW a, NEW d, NEW e, a = Len(r.id), d = Len(r.options), e = Len(r.data)
  PROVE  Offsets(WireByte, DataPieces(r, heap), DataOffsets(a, d, e), 7)
<1> DEFINE p == DataPieces(r, heap)
           f == DataOffsets(a, d, e)
<1>1. HeaderLen \in Nat /\ a \in Nat /\ d \in Nat /\ e \in Nat
  BY FieldFacts, SizesAssumption
<1>2. DataLength(r) + Len(r.data) \in Nat
  <2>1. Len(r.id) \in Nat /\ Len(r.options) \in Nat /\ Len(r.prefix_id) \in Nat
    BY FieldFacts
  <2>2. DataLength(r) = HeaderLen + 3 + a + d
    BY <2>1, BufferLengths
  <2>3. DataLength(r) \in Nat
    BY ONLY <1>1, <2>2
  <2>4. Len(r.data) \in Nat
    BY FieldFacts
  <2> QED
    BY ONLY <2>3, <2>4
<1>3. Ascending(f)
  <2>1. /\ 0 \in Nat /\ HeaderLen + 1 \in Nat /\ HeaderLen + 2 \in Nat /\ HeaderLen + 2 + a \in Nat
        /\ HeaderLen + 3 + a \in Nat /\ HeaderLen + 3 + a + d \in Nat
        /\ HeaderLen + 3 + a + d + e \in Nat
    BY ONLY <1>1
  <2>2. /\ 0 <= HeaderLen /\ HeaderLen <= HeaderLen + 1 /\ HeaderLen + 1 <= HeaderLen + 2
        /\ HeaderLen + 2 <= HeaderLen + 2 + a /\ HeaderLen + 2 + a <= HeaderLen + 3 + a
        /\ HeaderLen + 3 + a <= HeaderLen + 3 + a + d
        /\ HeaderLen + 3 + a + d <= HeaderLen + 3 + a + d + e
        /\ HeaderLen + 3 + a + d + e <= HeaderLen + 3 + a + d + e
    BY ONLY <1>1
  <2> QED
    BY ONLY <1>1, <2>1, <2>2, NineTuple DEF f, DataOffsets
<1>4. /\ p[1] = Header(DataLength(r) + Len(r.data), heap) /\ p[2] = <<r.type>> /\ p[3] = LengthByte(r.id)
      /\ p[4] = r.id /\ p[5] = <<"strategy">> /\ p[6] = r.options /\ p[7] = r.data
  BY DEF DataPieces
<1>5. /\ f[1] = 0 /\ f[2] = HeaderLen /\ f[3] = HeaderLen + 1 /\ f[4] = HeaderLen + 2
      /\ f[5] = HeaderLen + 2 + a /\ f[6] = HeaderLen + 3 + a /\ f[7] = HeaderLen + 3 + a + d
      /\ f[8] = HeaderLen + 3 + a + d + e /\ f[9] = HeaderLen + 3 + a + d + e
  BY DEF DataOffsets
<1> HIDE DEF p, f
<1>6. /\ p[1] \in Seq(WireByte) /\ p[2] \in Seq(WireByte) /\ p[3] \in Seq(WireByte)
      /\ p[4] \in Seq(WireByte) /\ p[5] \in Seq(WireByte) /\ p[6] \in Seq(WireByte)
      /\ p[7] \in Seq(WireByte)
  BY <1>1, <1>2, <1>4, FieldFacts, HeaderFacts, LengthByteFacts
<1>7. /\ Len(p[1]) = HeaderLen /\ Len(p[2]) = 1 /\ Len(p[3]) = 1 /\ Len(p[4]) = a
      /\ Len(p[5]) = 1 /\ Len(p[6]) = d /\ Len(p[7]) = e
  BY <1>1, <1>2, <1>4, HeaderFacts, LengthByteFacts, SmallParts
<1>8. /\ f[2] = f[1] + Len(p[1]) /\ f[3] = f[2] + Len(p[2]) /\ f[4] = f[3] + Len(p[3])
      /\ f[5] = f[4] + Len(p[4]) /\ f[6] = f[5] + Len(p[5]) /\ f[7] = f[6] + Len(p[6])
      /\ f[8] = f[7] + Len(p[7]) /\ f[8] = f[9]
  BY ONLY <1>1, <1>5, <1>7
<1>9. \A i \in 1..7 : i = 1 \/ i = 2 \/ i = 3 \/ i = 4 \/ i = 5 \/ i = 6 \/ i = 7
  OBVIOUS
<1>10. \A i \in 1..7 : p[i] \in Seq(WireByte) /\ f[i + 1] = f[i] + Len(p[i])
  BY <1>6, <1>8, <1>9
<1>11. Offsets(WireByte, p, f, 7)
  BY <1>3, <1>8, <1>10 DEF Offsets
<1> QED
  BY <1>11 DEF p, f

\* The pieces of a request, whatever its type.
PiecesOf(r, heap) == IF r.type = DataType THEN DataPieces(r, heap) ELSE ServicePieces(r, heap)
OffsetsOf(r) ==
  IF r.type = DataType
  THEN DataOffsets(Len(r.id), Len(r.options), Len(r.data))
  ELSE ServiceOffsets(Len(r.id), Len(r.prefix_id), Len(r.options))
NumberOf(r) == IF r.type = DataType THEN 7 ELSE 8

LEMMA LaidOf ==
  ASSUME NEW r, WellFormed(r), NEW heap \in Heap
  PROVE  Offsets(WireByte, PiecesOf(r, heap), OffsetsOf(r), NumberOf(r))
BY ServiceLaid, DataLaid DEF PiecesOf, OffsetsOf, NumberOf

\* The iovec of the blocking library.
LEMMA BlockingGathers ==
  ASSUME NEW r, WellFormed(r), NEW heap \in Heap
  PROVE  Gathers(WireByte, BlockingFrame(r, heap), PiecesOf(r, heap), OffsetsOf(r), NumberOf(r))
<1> DEFINE p == PiecesOf(r, heap)
<1>1. CASE r.type = DataType
  <2>1. p[1] = Header(DataLength(r) + Len(r.data), heap) /\ p[2] = <<r.type>> /\ p[3] = LengthByte(r.id)
        /\ p[4] = r.id /\ p[5] = <<"strategy">> /\ p[6] = r.options /\ p[7] = r.data
    BY <1>1 DEF PiecesOf, DataPieces
  <2>2. BlockingLength(r) = DataLength(r) + Len(r.data)
    BY <1>1 DEF BlockingLength, DataLength
  <2> HIDE DEF p
  <2>3. BlockingFrame(r, heap) = Pieces7(p)
    BY <1>1, <2>1, <2>2 DEF BlockingFrame, publish_data, Pieces7
  <2>4. NumberOf(r) = 7
    BY <1>1 DEF NumberOf
  <2>5. Gathers(WireByte, Pieces7(p), PiecesOf(r, heap), OffsetsOf(r), 7)
    BY <2>4, LaidOf, SevenPieces DEF p
  <2> QED
    BY <2>3, <2>4, <2>5
<1>2. CASE r.type /= DataType
  <2>1. /\ p[1] = Header(PushLength(r), heap) /\ p[2] = <<r.type>> /\ p[3] = LengthByte(r.id)
        /\ p[4] = r.id /\ p[5] = LengthByte(r.prefix_id) /\ p[6] = r.prefix_id
        /\ p[7] = <<"strategy">> /\ p[8] = r.options
    BY <1>2 DEF PiecesOf, ServicePieces
  <2>2. BlockingLength(r) = PushLength(r)
    BY <1>2 DEF BlockingLength, PushLength
  <2> HIDE DEF p
  <2>3. BlockingFrame(r, heap) = Pieces8(p)
    BY <1>2, <2>1, <2>2 DEF BlockingFrame, create_and_send_buffers, Pieces8
  <2>4. NumberOf(r) = 8
    BY <1>2 DEF NumberOf
  <2>5. Gathers(WireByte, Pieces8(p), PiecesOf(r, heap), OffsetsOf(r), 8)
    BY <2>4, LaidOf, EightPieces DEF p
  <2> QED
    BY <2>3, <2>4, <2>5
<1> QED
  BY <1>1, <1>2

\* The copies of the non-blocking library, and the data behind them.
LEMMA ServiceCopies ==
  ASSUME NEW r, WellFormed(r), NEW heap \in Heap, r.type /= DataType,
         NEW p, NEW f, p = PiecesOf(r, heap), f = OffsetsOf(r)
  PROVE  /\ DOMAIN NBParts(r) = 1..9
         /\ NBParts(r)[1] = Part(0, BeforeSeq(PushLength(r)))
         /\ NBParts(r)[2] = Part(SeqOffset + SeqLen, AfterSeq)
         /\ \A i \in 2..8 : NBParts(r)[i + 1] = Part(f[i], p[i])
         /\ p[1] = Header(PushLength(r), heap)
         /\ NBLength(r) = f[9]
<1> DEFINE a == Len(r.id)
           b == Len(r.prefix_id)
           d == Len(r.options)
           q == PushParts(r)
<1>1. HeaderLen \in Nat /\ a \in Nat /\ b \in Nat /\ d \in Nat
  BY FieldFacts, SizesAssumption
<1>2. /\ p[1] = Header(PushLength(r), heap) /\ p[2] = <<r.type>> /\ p[3] = LengthByte(r.id)
      /\ p[4] = r.id /\ p[5] = LengthByte(r.prefix_id) /\ p[6] = r.prefix_id
      /\ p[7] = <<"strategy">> /\ p[8] = r.options
  BY DEF PiecesOf, ServicePieces
<1>3. /\ f[1] = 0 /\ f[2] = HeaderLen /\ f[3] = HeaderLen + 1 /\ f[4] = HeaderLen + 2
      /\ f[5] = HeaderLen + 2 + a /\ f[6] = HeaderLen + 3 + a /\ f[7] = HeaderLen + 3 + a + b
      /\ f[8] = HeaderLen + 4 + a + b /\ f[9] = HeaderLen + 4 + a + b + d
  BY DEF OffsetsOf, ServiceOffsets
<1>h. q[1] = Part(0, BeforeSeq(PushLength(r))) /\ q[2] = Part(SeqOffset + SeqLen, AfterSeq)
  BY DEF PushParts
<1>4. /\ q[3] = Part(HeaderLen, p[2])
      /\ q[4] = Part(HeaderLen + 1, p[3])
      /\ q[5] = Part(HeaderLen + 1 + 1, p[4])
      /\ q[6] = Part(HeaderLen + 1 + 1 + a, p[5])
      /\ q[7] = Part(HeaderLen + 1 + 1 + a + 1, p[6])
      /\ q[8] = Part(HeaderLen + 1 + 1 + a + 1 + b, p[7])
      /\ q[9] = Part(HeaderLen + 1 + 1 + a + 1 + b + 1, p[8])
  BY ONLY <1>2 DEF PushParts, q, a, b
<1>5. DOMAIN q = 1..9
  BY DEF PushParts
<1>6. PushLength(r) = HeaderLen + 4 + a + b + d
  BY <1>1, BufferLengths
<1>7. NBParts(r) = q /\ NBLength(r) = PushLength(r)
  BY DEF NBParts, NBLength
<1> HIDE DEF q, a, b, d
<1>8. /\ HeaderLen + 1 + 1 = HeaderLen + 2
      /\ HeaderLen + 1 + 1 + a = HeaderLen + 2 + a
      /\ HeaderLen + 1 + 1 + a + 1 = HeaderLen + 3 + a
      /\ HeaderLen + 1 + 1 + a + 1 + b = HeaderLen + 3 + a + b
      /\ HeaderLen + 1 + 1 + a + 1 + b + 1 = HeaderLen + 4 + a + b
  BY ONLY <1>1
<1>9. /\ q[3] = Part(f[2], p[2]) /\ q[4] = Part(f[3], p[3])
      /\ q[5] = Part(f[4], p[4]) /\ q[6] = Part(f[5], p[5]) /\ q[7] = Part(f[6], p[6])
      /\ q[8] = Part(f[7], p[7]) /\ q[9] = Part(f[8], p[8])
  BY ONLY <1>3, <1>4, <1>8
<1>10. \A i \in 2..8 : i = 2 \/ i = 3 \/ i = 4 \/ i = 5 \/ i = 6 \/ i = 7 \/ i = 8
  OBVIOUS
<1>11. \A i \in 2..8 : q[i + 1] = Part(f[i], p[i])
  BY ONLY <1>9, <1>10
<1> QED
  BY <1>2, <1>3, <1>5, <1>6, <1>7, <1>11, <1>h

LEMMA DataCopies ==
  ASSUME NEW r, WellFormed(r), NEW heap \in Heap, r.type = DataType,
         NEW p, NEW f, p = PiecesOf(r, heap), f = OffsetsOf(r)
  PROVE  /\ DOMAIN NBParts(r) = 1..7
         /\ NBParts(r)[1] = Part(0, BeforeSeq(DataLength(r) + Len(r.data)))
         /\ NBParts(r)[2] = Part(SeqOffset + SeqLen, AfterSeq)
         /\ \A i \in 2..6 : NBParts(r)[i + 1] = Part(f[i], p[i])
         /\ p[1] = Header(DataLength(r) + Len(r.data), heap)
         /\ NBLength(r) = f[7]
         /\ p[7] = r.data
<1> DEFINE a == Len(r.id)
           d == Len(r.options)
           e == Len(r.data)
           q == DataParts(r)
<1>1. HeaderLen \in Nat /\ a \in Nat /\ d \in Nat /\ e \in Nat /\ Len(r.prefix_id) \in Nat
  BY FieldFacts, SizesAssumption
<1>2. /\ p[1] = Header(DataLength(r) + Len(r.data), heap) /\ p[2] = <<r.type>> /\ p[3] = LengthByte(r.id)
      /\ p[4] = r.id /\ p[5] = <<"strategy">> /\ p[6] = r.options /\ p[7] = r.data
  BY DEF PiecesOf, DataPieces
<1>3. /\ f[1] = 0 /\ f[2] = HeaderLen /\ f[3] = HeaderLen + 1 /\ f[4] = HeaderLen + 2
      /\ f[5] = HeaderLen + 2 + a /\ f[6] = HeaderLen + 3 + a /\ f[7] = HeaderLen + 3 + a + d
  BY DEF OffsetsOf, DataOffsets
<1>h. q[1] = Part(0, BeforeSeq(DataLength(r) + Len(r.data))) /\ q[2] = Part(SeqOffset + SeqLen, AfterSeq)
  BY DEF DataParts
<1>4. /\ q[3] = Part(HeaderLen, p[2])
      /\ q[4] = Part(HeaderLen + 1, p[3])
      /\ q[5] = Part(HeaderLen + 1 + 1, p[4])
      /\ q[6] = Part(HeaderLen + 1 + 1 + a, p[5])
      /\ q[7] = Part(HeaderLen + 1 + 1 + a + 1, p[6])
  BY ONLY <1>2 DEF DataParts, q, a
<1>5. DOMAIN q = 1..7
  BY DEF DataParts
<1>6. DataLength(r) = HeaderLen + 3 + a + d
  BY <1>1, BufferLengths
<1>7. NBParts(r) = q /\ NBLength(r) = DataLength(r)
  BY DEF NBParts, NBLength
<1> HIDE DEF q, a, d, e
<1>8. /\ HeaderLen + 1 + 1 = HeaderLen + 2
      /\ HeaderLen + 1 + 1 + a = HeaderLen + 2 + a
      /\ HeaderLen + 1 + 1 + a + 1 = HeaderLen + 3 + a
  BY ONLY <1>1
<1>9. /\ q[3] = Part(f[2], p[2]) /\ q[4] = Part(f[3], p[3])
      /\ q[5] = Part(f[4], p[4]) /\ q[6] = Part(f[5], p[5]) /\ q[7] = Part(f[6], p[6])
  BY ONLY <1>3, <1>4, <1>8
<1>10. \A i \in 2..6 : i = 2 \/ i = 3 \/ i = 4 \/ i = 5 \/ i = 6
  OBVIOUS
<1>11. \A i \in 2..6 : q[i + 1] = Part(f[i], p[i])
  BY ONLY <1>9, <1>10
<1> QED
  BY <1>2, <1>3, <1>5, <1>6, <1>7, <1>11, <1>h

LEMMA RequestLength ==
  ASSUME NEW r, WellFormed(r)
  PROVE  (IF r.type = DataType THEN DataLength(r) + Len(r.data) ELSE PushLength(r)) \in Nat
<1> DEFINE a == Len(r.id)
           b == Len(r.prefix_id)
           d == Len(r.options)
           e == Len(r.data)
<1>1. HeaderLen \in Nat /\ a \in Nat /\ b \in Nat /\ d \in Nat /\ e \in Nat
  BY FieldFacts, HeaderParts
<1>2. PushLength(r) = HeaderLen + 4 + a + b + d /\ DataLength(r) = HeaderLen + 3 + a + d
  BY <1>1, BufferLengths
<1>3. HeaderLen + 4 + a + b + d \in Nat /\ HeaderLen + 3 + a + d + e \in Nat
  <2> HIDE DEF a, b, d, e
  <2> QED
    BY ONLY <1>1
<1> QED
  BY <1>2, <1>3

\* Headers of one length differ in nlmsg_seq at most.
LEMMA SameHeaders ==
  ASSUME NEW n \in Nat, NEW heap \in Heap, NEW nbHeap \in Heap, NEW y \in 1..HeaderLen, y \notin SeqBytes
  PROVE  Header(n, heap)[y] = Header(n, nbHeap)[y]
<1>h. /\ HeaderIs(HeaderByte, Header(n, heap), n, heap)
      /\ HeaderIs(HeaderByte, Header(n, nbHeap), n, nbHeap)
  BY HeaderLaid
<1>1. CASE y \in 1..SeqOffset
  BY <1>1, <1>h DEF HeaderIs
<1>2. CASE y \notin 1..SeqOffset
  <2> DEFINE z == y - (SeqOffset + SeqLen)
  <2>1. z \in 1..Len(AfterSeq) /\ SeqOffset + SeqLen + z = y
    BY <1>2, HeaderParts, SmallParts DEF SeqBytes
  <2> HIDE DEF z
  <2>2. /\ Header(n, heap)[SeqOffset + SeqLen + z] = AfterSeq[z]
        /\ Header(n, nbHeap)[SeqOffset + SeqLen + z] = AfterSeq[z]
    BY <1>h, <2>1 DEF HeaderIs
  <2> QED
    BY <2>1, <2>2
<1> QED
  BY <1>1, <1>2

LEMMA NonblockingGathers ==
  ASSUME NEW r, WellFormed(r), NEW heap \in Heap
  PROVE  Gathers(WireByte, NBFrame(r, heap), PiecesOf(r, heap), OffsetsOf(r), NumberOf(r))
<1> DEFINE p == PiecesOf(r, heap)
           f == OffsetsOf(r)
           n == NumberOf(r)
           q == NBParts(r)
           length == IF r.type = DataType THEN DataLength(r) + Len(r.data) ELSE PushLength(r)
           copied == Copied(q, NBLength(r), heap)
<1>1. Offsets(WireByte, p, f, n)
  BY LaidOf
<1>l. length \in Nat
  BY RequestLength
<1>b. HeaderByte \subseteq WireByte
  BY DEF WireByte
<1>2. CASE r.type = DataType
  <2>1. /\ DOMAIN q = 1..(6 + 1) /\ (\A i \in 2..6 : q[i + 1] = Part(f[i], p[i]))
        /\ q[1] = Part(0, BeforeSeq(length)) /\ q[2] = Part(SeqOffset + SeqLen, AfterSeq)
        /\ p[1] = Header(length, heap) /\ NBLength(r) = f[7] /\ p[7] = r.data
    BY <1>2, DataCopies
  <2>2. n = 7 /\ 6 \in 1..n /\ 6 \in 1..(n - 1) /\ 7 = 6 + 1
    BY <1>2 DEF NumberOf
  <2>3. NBFrame(r, heap) = copied \o p[7]
    BY <2>1 DEF NBFrame
  <2> HIDE DEF p, f, n, q, length
  <2>4. Gathers(WireByte, Copied(q, f[6 + 1], heap), p, f, 6)
    BY <1>1, <1>b, <1>l, <2>1, <2>2, CopiedGathers
  <2>5. copied = Copied(q, f[6 + 1], heap)
    BY <2>1
  <2> HIDE DEF copied
  <2>6. Gathers(WireByte, copied, p, f, 6)
    BY <2>4, <2>5
  <2>7. Gathers(WireByte, copied \o p[7], p, f, 7)
    BY <1>1, <2>2, <2>6, GatherStep
  <2> QED
    BY <2>2, <2>3, <2>7 DEF p, f, n
<1>3. CASE r.type /= DataType
  <2>1. /\ DOMAIN q = 1..(8 + 1) /\ (\A i \in 2..8 : q[i + 1] = Part(f[i], p[i]))
        /\ q[1] = Part(0, BeforeSeq(length)) /\ q[2] = Part(SeqOffset + SeqLen, AfterSeq)
        /\ p[1] = Header(length, heap) /\ NBLength(r) = f[9]
    BY <1>3, ServiceCopies
  <2>2. n = 8 /\ 8 \in 1..n
    BY <1>3 DEF NumberOf
  <2>3. NBFrame(r, heap) = copied \o <<>>
    BY <1>3 DEF NBFrame, WellFormed
  <2> HIDE DEF p, f, n, q, length
  <2>4. Gathers(WireByte, Copied(q, f[8 + 1], heap), p, f, 8)
    BY <1>1, <1>b, <1>l, <2>1, <2>2, CopiedGathers
  <2>5. copied = Copied(q, f[8 + 1], heap)
    BY <2>1
  <2> HIDE DEF copied
  <2>6. Gathers(WireByte, copied, p, f, 8)
    BY <2>4, <2>5
  <2>7. copied \in Seq(WireByte)
    BY <2>6 DEF Gathers
  <2>8. copied \o <<>> = copied
    BY <2>7, ConcatEmptySeq
  <2> QED
    BY <2>2, <2>3, <2>6, <2>8 DEF p, f, n
<1> QED
  BY <1>2, <1>3

\* Equal in length and in all bytes but those of nlmsg_seq.
SameButSeq(s, t) == Len(s) = Len(t) /\ \A y \in DOMAIN s \ SeqBytes : s[y] = t[y]

\* Whatever malloc leaves, both libraries make the same bytes of a request, but for
\* nlmsg_seq.
LEMMA SameFrames ==
  ASSUME NEW r, WellFormed(r), NEW heap \in Heap, NEW nbHeap \in Heap
  PROVE  SameButSeq(BlockingFrame(r, heap), NBFrame(r, nbHeap))
<1> DEFINE p == PiecesOf(r, heap)
           q == PiecesOf(r, nbHeap)
           f == OffsetsOf(r)
           n == NumberOf(r)
           s == BlockingFrame(r, heap)
           t == NBFrame(r, nbHeap)
           length == IF r.type = DataType THEN DataLength(r) + Len(r.data) ELSE PushLength(r)
<1>1. Offsets(WireByte, p, f, n)
  BY LaidOf
<1>2. Gathers(WireByte, s, p, f, n) /\ Gathers(WireByte, t, q, f, n)
  BY NonblockingGathers, BlockingGathers
<1>3. p[1] = Header(length, heap) /\ q[1] = Header(length, nbHeap)
  BY DEF PiecesOf, DataPieces, ServicePieces
<1>4. \A i \in 2..n : p[i] = q[i]
  <2>1. \A i \in 2..n : i = 2 \/ i = 3 \/ i = 4 \/ i = 5 \/ i = 6 \/ i = 7 \/ (i = 8 /\ r.type /= DataType)
    BY DEF NumberOf
  <2>2. CASE r.type = DataType
    <3>1. /\ p[2] = q[2] /\ p[3] = q[3] /\ p[4] = q[4] /\ p[5] = q[5] /\ p[6] = q[6]
          /\ p[7] = q[7]
      BY <2>2 DEF PiecesOf, DataPieces
    <3> QED
      BY <2>1, <2>2, <3>1
  <2>3. CASE r.type /= DataType
    <3>1. /\ p[2] = q[2] /\ p[3] = q[3] /\ p[4] = q[4] /\ p[5] = q[5] /\ p[6] = q[6]
          /\ p[7] = q[7] /\ p[8] = q[8]
      BY <2>3 DEF PiecesOf, ServicePieces
    <3> QED
      BY <2>1, <3>1
  <2> QED
    BY <2>2, <2>3
<1>5. length \in Nat
  BY RequestLength
<1> HIDE DEF p, q, f, n, s, t, length
<1>6. Len(s) = f[9] /\ Len(t) = f[9] /\ f[9] \in Nat /\ s \in Seq(WireByte) /\ f[1] = 0
  <2>1. f[n + 1] = f[9] /\ f[9] \in Nat /\ f[1] = 0
    <3>1. LaidOut(WireByte, p, f, n)
      BY <1>1, OffsetFacts
    <3>2. 9 \in 1..9
      OBVIOUS
    <3> QED
      BY <1>1, <3>1, <3>2 DEF Offsets, LaidOut
  <2> QED
    BY <1>2, <2>1 DEF Gathers
<1>7. ASSUME NEW y \in 1..f[9], y \notin SeqBytes PROVE s[y] = t[y]
  <2>1. PICK i \in 1..n : /\ f[i] \in Nat /\ y - f[i] \in 1..Len(p[i]) /\ f[i] + (y - f[i]) = y
                         /\ s[y] = p[i][y - f[i]]
    BY <1>1, <1>2, PieceOf
  <2>2. CASE i = 1
    <3>1. y \in 1..HeaderLen /\ y - f[1] = y
      BY <1>3, <1>5, <1>6, <2>1, <2>2, HeaderFacts
    <3>2. 1 \in 1..n /\ Len(q[1]) = HeaderLen
      BY <1>3, <1>5, <2>1, <2>2, HeaderFacts
    <3>3. t[f[1] + y] = q[1][y]
      BY <1>2, <3>1, <3>2 DEF Gathers, Holds
    <3>4. f[1] + y = y
      BY <1>6, <3>1
    <3>5. Header(length, heap)[y] = Header(length, nbHeap)[y]
      BY <1>5, <1>7, <3>1, SameHeaders
    <3> QED
      BY <1>3, <2>1, <2>2, <3>1, <3>3, <3>4, <3>5
  <2>3. CASE i /= 1
    <3>1. i \in 2..n
      BY <1>1, <2>3 DEF Offsets
    <3>2. p[i] = q[i]
      BY <1>4, <3>1
    <3>3. t[f[i] + (y - f[i])] = q[i][y - f[i]]
      BY <1>2, <2>1, <3>2 DEF Gathers, Holds
    <3> QED
      BY <2>1, <3>2, <3>3
  <2> QED
    BY <2>2, <2>3
<1>8. DOMAIN s = 1..f[9]
  BY <1>6
<1>9. SameButSeq(s, t)
  BY <1>6, <1>7, <1>8 DEF SameButSeq
<1> QED
  BY <1>9 DEF s, t

(***************************************************************************)
(* What the node reads                                                     *)
(***************************************************************************)

\* A length byte that counts the fragments of an identifier of whole fragments.
LEMMA CountedFragments ==
  ASSUME NEW s, Len(s) \in Nat, WholeFragments(s), Fragments(s) < ByteRange
  PROVE  /\ Fragments(s) \in 0..(ByteRange - 1)
         /\ Fragments(s) % ByteRange = Fragments(s)
         /\ Fragments(s) * IdLen = Len(s)
<1>1. IdLen \in Nat /\ IdLen > 0 /\ ByteRange \in Nat
  BY SizesAssumption
<1>2. Fragments(s) \in Nat
  BY <1>1 DEF Fragments
<1>3. \A x, y \in Nat : y > 0 /\ x % y = 0 => (x \div y) * y = x
  OBVIOUS
<1>4. Fragments(s) * IdLen = Len(s)
  BY <1>1, <1>3 DEF Fragments, WholeFragments
<1> QED
  BY <1>1, <1>2, <1>4

\* Where s holds a length byte and the identifier it counts, the field is read.
LEMMA FieldRead ==
  ASSUME NEW s, NEW id \in Seq(WireByte), NEW n \in Nat, Len(s) \in Nat,
         WholeFragments(id), Fragments(id) < ByteRange,
         n + 1 + Len(id) <= Len(s), s[n + 1] = Fragments(id) % ByteRange,
         Holds(s, n + 1, id)
  PROVE  /\ HasField(s, n)
         /\ Field(s, n) = id
<1>1. Len(id) \in Nat
  OBVIOUS
<1>2. /\ Fragments(id) \in 0..(ByteRange - 1)
      /\ s[n + 1] = Fragments(id) /\ s[n + 1] * IdLen = Len(id)
  BY <1>1, CountedFragments
<1>3. HasField(s, n)
  <2>1. n < Len(s)
    BY <1>1
  <2> QED
    BY <1>2, <2>1 DEF HasField
<1>4. Field(s, n) = [i \in 1..Len(id) |-> IF n + 1 + i <= Len(s) THEN s[n + 1 + i] ELSE Garbage]
  BY <1>2 DEF Field
<1>5. ASSUME NEW i \in 1..Len(id) PROVE n + 1 + i <= Len(s) /\ s[n + 1 + i] = id[i]
  <2>1. n + 1 + i <= Len(s)
    BY <1>1
  <2> QED
    BY <2>1 DEF Holds
<1>6. Field(s, n) = [i \in 1..Len(id) |-> id[i]]
  BY <1>4, <1>5
<1>7. id = [i \in 1..Len(id) |-> id[i]]
  OBVIOUS
<1> QED
  BY <1>3, <1>6, <1>7

\* The end of s is t.
LEMMA RestRead ==
  ASSUME NEW s \in Seq(WireByte), NEW t \in Seq(WireByte), NEW n \in Nat,
         Len(s) = n + Len(t), Holds(s, n, t)
  PROVE  After(s, n) = t
<1> DEFINE u == SubSeq(s, n + 1, Len(s))
<1>1. Len(t) \in Nat /\ Len(s) \in Nat
  OBVIOUS
<1>2. /\ u \in Seq(WireByte) /\ Len(u) = Len(t)
      /\ \A i \in 1..Len(t) : u[i] = s[n + i]
  BY <1>1
<1>3. \A i \in 1..Len(t) : s[n + i] = t[i]
  BY DEF Holds
<1>4. After(s, n) = u
  BY DEF After
<1> HIDE DEF u
<1>5. u = t
  BY <1>1, <1>2, <1>3, SeqEqual
<1> QED
  BY <1>4, <1>5

\* Two pieces that stand one behind the other stand there as one.
LEMMA HoldsTogether ==
  ASSUME NEW s, NEW t \in Seq(WireByte), NEW u \in Seq(WireByte), NEW n \in Nat, NEW m,
         Holds(s, n, t), Holds(s, m, u), m = n + Len(t)
  PROVE  Holds(s, n, t \o u)
<1>1. Len(t) \in Nat /\ Len(u) \in Nat /\ Len(t \o u) = Len(t) + Len(u)
  OBVIOUS
<1>2. /\ \A i \in 1..Len(t) : (t \o u)[i] = t[i]
      /\ \A i \in 1..Len(u) : (t \o u)[Len(t) + i] = u[i]
  OBVIOUS
<1>3. ASSUME NEW j \in 1..Len(t \o u) PROVE s[n + j] = (t \o u)[j]
  <2>1. CASE j \in 1..Len(t)
    BY <1>2, <2>1 DEF Holds
  <2>2. CASE j \notin 1..Len(t)
    <3>1. j - Len(t) \in 1..Len(u) /\ Len(t) + (j - Len(t)) = j /\ m + (j - Len(t)) = n + j
      BY <1>1, <2>2
    <3>2. s[m + (j - Len(t))] = u[j - Len(t)]
      BY <3>1 DEF Holds
    <3>3. (t \o u)[Len(t) + (j - Len(t))] = u[j - Len(t)]
      BY <1>2, <3>1
    <3> QED
      BY <3>1, <3>2, <3>3
  <2> QED
    BY <2>1, <2>2
<1> QED
  BY <1>3 DEF Holds

\* What the node is meant to read of a request.
ReadAs(r) ==
  [type |-> r.type, id |-> r.id, prefix_id |-> IF r.type = DataType THEN <<>> ELSE r.prefix_id,
   rest |-> <<"strategy">> \o r.options \o r.data]

\* The small pieces hold one byte each, the header its own length.
LEMMA ByteFacts ==
  ASSUME NEW s, NEW from \in Nat, NEW byte, Holds(s, from, <<byte>>)
  PROVE  s[from + 1] = byte
BY DEF Holds

LEMMA FirstByte ==
  ASSUME NEW s, NEW n \in Nat, NEW heap \in Heap, Holds(s, 0, Header(n, heap))
  PROVE  s[1] = <<"nlmsg_len", n>>
<1>1. Header(n, heap)[1] = BeforeSeq(n)[1] /\ Len(Header(n, heap)) = HeaderLen
  <2>1. 1 \in 1..SeqOffset
    BY HeaderParts
  <2>2. HeaderIs(HeaderByte, Header(n, heap), n, heap)
    BY HeaderLaid
  <2> QED
    BY <2>1, <2>2 DEF HeaderIs
<1>2. BeforeSeq(n)[1] = <<"nlmsg_len", n>>
  BY HeaderParts DEF BeforeSeq, Bytes
<1>3. s[0 + 1] = Header(n, heap)[1]
  <2>1. 1 \in 1..HeaderLen
    BY HeaderParts
  <2> QED
    BY <1>1, <2>1 DEF Holds
<1> QED
  BY <1>1, <1>2, <1>3

LEMMA ServiceRead ==
  ASSUME NEW r, WellFormed(r), NEW heap \in Heap, r.type /= DataType,
         WholeFragments(r.id), Fragments(r.id) < ByteRange,
         WholeFragments(r.prefix_id), Fragments(r.prefix_id) < ByteRange,
         NEW s, Gathers(WireByte, s, PiecesOf(r, heap), OffsetsOf(r), NumberOf(r))
  PROVE  Parse(s) = ReadAs(r)
<1> DEFINE p == PiecesOf(r, heap)
           f == OffsetsOf(r)
           a == Len(r.id)
           b == Len(r.prefix_id)
           d == Len(r.options)
<1>1. HeaderLen \in Nat /\ a \in Nat /\ b \in Nat /\ d \in Nat
  BY FieldFacts, SizesAssumption
<1>2. /\ p[1] = Header(PushLength(r), heap) /\ p[2] = <<r.type>> /\ p[3] = LengthByte(r.id)
      /\ p[4] = r.id /\ p[5] = LengthByte(r.prefix_id) /\ p[6] = r.prefix_id
      /\ p[7] = <<"strategy">> /\ p[8] = r.options
  BY DEF PiecesOf, ServicePieces
<1>3. /\ f[1] = 0 /\ f[2] = HeaderLen /\ f[3] = HeaderLen + 1 /\ f[4] = HeaderLen + 2
      /\ f[5] = HeaderLen + 2 + a /\ f[6] = HeaderLen + 3 + a /\ f[7] = HeaderLen + 3 + a + b
      /\ f[8] = HeaderLen + 4 + a + b /\ f[9] = HeaderLen + 4 + a + b + d
  BY DEF OffsetsOf, ServiceOffsets
<1>4. PushLength(r) = HeaderLen + 4 + a + b + d
  BY <1>1, BufferLengths
<1>5. s \in Seq(WireByte) /\ Len(s) = f[9] /\ \A i \in 1..8 : Holds(s, f[i], p[i])
  BY DEF Gathers, NumberOf
<1>6. /\ Holds(s, 0, Header(PushLength(r), heap)) /\ Holds(s, HeaderLen, <<r.type>>)
      /\ Holds(s, HeaderLen + 1, LengthByte(r.id)) /\ Holds(s, HeaderLen + 2, r.id)
      /\ Holds(s, HeaderLen + 2 + a, LengthByte(r.prefix_id))
      /\ Holds(s, HeaderLen + 3 + a, r.prefix_id)
      /\ Holds(s, HeaderLen + 3 + a + b, <<"strategy">>)
      /\ Holds(s, HeaderLen + 4 + a + b, r.options)
  <2> HIDE DEF p, f, a, b, d
  <2>1. \A i \in 1..8 : Holds(s, f[i], p[i])
    BY <1>5
  <2> QED
    BY ONLY <1>2, <1>3, <2>1
<1> DEFINE t == <<"strategy">> \o r.options
<1>t. t \in Seq(WireByte) /\ Len(t) = 1 + d
  BY FieldFacts
<1>r. ReadAs(r) = [type |-> r.type, id |-> r.id, prefix_id |-> r.prefix_id, rest |-> t]
  <2>1. r.data = <<>> /\ t \o <<>> = t
    BY <1>t, ConcatEmptySeq DEF WellFormed
  <2> QED
    BY <2>1 DEF ReadAs
<1>f. r.id \in Seq(WireByte) /\ r.prefix_id \in Seq(WireByte) /\ <<"strategy">> \in Seq(WireByte)
      /\ r.options \in Seq(WireByte)
  BY FieldFacts
<1>l. Len(s) = HeaderLen + 4 + a + b + d
  BY <1>3, <1>5
<1> HIDE DEF p, f
<1>7. s[1] = <<"nlmsg_len", Len(s)>>
  <2>1. PushLength(r) = Len(s) /\ Len(s) \in Nat
    BY <1>4, <1>5, <1>l
  <2>2. Holds(s, 0, Header(Len(s), heap))
    BY <1>6, <2>1
  <2> QED
    BY <2>1, <2>2, FirstByte
<1>8. s[HeaderLen + 1] = r.type
  BY <1>1, <1>6, ByteFacts
<1>9. HasField(s, HeaderLen + 1) /\ Field(s, HeaderLen + 1) = r.id
  <2>1. s[HeaderLen + 1 + 1] = Fragments(r.id) % ByteRange
    BY <1>1, <1>6, ByteFacts DEF LengthByte
  <2>2. HeaderLen + 1 + 1 = HeaderLen + 2 /\ HeaderLen + 1 \in Nat
    BY <1>1
  <2>3. HeaderLen + 1 + 1 + Len(r.id) <= Len(s) /\ Len(s) \in Nat
    <3> HIDE DEF a, b, d
    <3>1. HeaderLen + 1 + 1 + a <= HeaderLen + 4 + a + b + d /\ HeaderLen + 4 + a + b + d \in Nat
      BY ONLY <1>1
    <3> QED
      BY ONLY <3>1, <1>l DEF a
  <2>4. Holds(s, HeaderLen + 1 + 1, r.id)
    BY <1>6, <2>2
  <2> QED
    BY <1>f, <2>1, <2>2, <2>3, <2>4, FieldRead
<1>10. HasField(s, HeaderLen + 2 + a) /\ Field(s, HeaderLen + 2 + a) = r.prefix_id
  <2>2. HeaderLen + 2 + a + 1 = HeaderLen + 3 + a /\ HeaderLen + 2 + a \in Nat
    <3> HIDE DEF a
    <3> QED
      BY ONLY <1>1
  <2>1. s[HeaderLen + 2 + a + 1] = Fragments(r.prefix_id) % ByteRange
    BY <2>2, <1>6, ByteFacts DEF LengthByte
  <2>3. HeaderLen + 2 + a + 1 + Len(r.prefix_id) <= Len(s) /\ Len(s) \in Nat
    <3> HIDE DEF a, b, d
    <3>1. HeaderLen + 2 + a + 1 + b <= HeaderLen + 4 + a + b + d /\ HeaderLen + 4 + a + b + d \in Nat
      BY ONLY <1>1
    <3> QED
      BY ONLY <3>1, <1>l DEF b
  <2>4. Holds(s, HeaderLen + 2 + a + 1, r.prefix_id)
    BY <1>6, <2>2
  <2> HIDE DEF a
  <2> QED
    BY <1>f, <2>1, <2>2, <2>3, <2>4, FieldRead
<1>11. After(s, HeaderLen + 3 + a + b) = t
  <2>1. HeaderLen + 3 + a + b \in Nat /\ HeaderLen + 3 + a + b + 1 = HeaderLen + 4 + a + b
        /\ HeaderLen + 4 + a + b + d = HeaderLen + 3 + a + b + (1 + d)
    <3> HIDE DEF a, b, d
    <3> QED
      BY ONLY <1>1
  <2>2. Len(<<"strategy">>) = 1
    OBVIOUS
  <2>3. Holds(s, HeaderLen + 3 + a + b, <<"strategy">> \o r.options)
    <3> HIDE DEF a, b, d
    <3> QED
      BY <1>6, <1>f, <2>1, <2>2, HoldsTogether
  <2>4. Len(s) = HeaderLen + 3 + a + b + Len(t)
    BY <1>l, <1>t, <2>1
  <2> HIDE DEF a, b, d
  <2> QED
    BY <1>5, <1>t, <2>1, <2>3, <2>4, RestRead
<1>12. HeaderLen + 2 + Len(r.id) = HeaderLen + 2 + a
       /\ HeaderLen + 2 + a + 1 + Len(r.prefix_id) = HeaderLen + 3 + a + b
  <2>1. HeaderLen + 2 + a + 1 + b = HeaderLen + 3 + a + b
    <3> HIDE DEF a, b
    <3> QED
      BY ONLY <1>1
  <2> QED
    BY <2>1
<1> HIDE DEF a, b, d, t
<1>13. Parse(s) = [type |-> r.type, id |-> r.id, prefix_id |-> r.prefix_id, rest |-> t]
  BY ONLY <1>7, <1>8, <1>9, <1>10, <1>11, <1>12, r.type /= DataType DEF Parse
<1> QED
  BY <1>13, <1>r

LEMMA DataRead ==
  ASSUME NEW r, WellFormed(r), NEW heap \in Heap, r.type = DataType,
         WholeFragments(r.id), Fragments(r.id) < ByteRange,
         NEW s, Gathers(WireByte, s, PiecesOf(r, heap), OffsetsOf(r), NumberOf(r))
  PROVE  Parse(s) = ReadAs(r)
<1> DEFINE p == PiecesOf(r, heap)
           f == OffsetsOf(r)
           a == Len(r.id)
           d == Len(r.options)
           e == Len(r.data)
<1>1. HeaderLen \in Nat /\ a \in Nat /\ d \in Nat /\ e \in Nat /\ Len(r.prefix_id) \in Nat
  BY FieldFacts, SizesAssumption
<1>2. /\ p[1] = Header(DataLength(r) + Len(r.data), heap) /\ p[2] = <<r.type>> /\ p[3] = LengthByte(r.id)
      /\ p[4] = r.id /\ p[5] = <<"strategy">> /\ p[6] = r.options /\ p[7] = r.data
  BY DEF PiecesOf, DataPieces
<1>3. /\ f[1] = 0 /\ f[2] = HeaderLen /\ f[3] = HeaderLen + 1 /\ f[4] = HeaderLen + 2
      /\ f[5] = HeaderLen + 2 + a /\ f[6] = HeaderLen + 3 + a /\ f[7] = HeaderLen + 3 + a + d
      /\ f[8] = HeaderLen + 3 + a + d + e
  BY DEF OffsetsOf, DataOffsets
<1>4. DataLength(r) = HeaderLen + 3 + a + d
  BY <1>1, BufferLengths
<1>5. s \in Seq(WireByte) /\ Len(s) = f[8] /\ \A i \in 1..7 : Holds(s, f[i], p[i])
  BY DEF Gathers, NumberOf
<1>6. /\ Holds(s, 0, Header(DataLength(r) + Len(r.data), heap)) /\ Holds(s, HeaderLen, <<r.type>>)
      /\ Holds(s, HeaderLen + 1, LengthByte(r.id)) /\ Holds(s, HeaderLen + 2, r.id)
      /\ Holds(s, HeaderLen + 2 + a, <<"strategy">>)
      /\ Holds(s, HeaderLen + 3 + a, r.options)
      /\ Holds(s, HeaderLen + 3 + a + d, r.data)
  <2> HIDE DEF p, f, a, d, e
  <2>1. \A i \in 1..7 : Holds(s, f[i], p[i])
    BY <1>5
  <2> QED
    BY ONLY <1>2, <1>3, <2>1
<1>f. /\ r.id \in Seq(WireByte) /\ <<"strategy">> \in Seq(WireByte)
      /\ r.options \in Seq(WireByte) /\ r.data \in Seq(WireByte)
  BY FieldFacts
<1> DEFINE t == <<"strategy">> \o r.options
           u == t \o r.data
<1>t. t \in Seq(WireByte) /\ Len(t) = 1 + d
  BY <1>f
<1>u. u \in Seq(WireByte) /\ Len(u) = 1 + d + e
  <2> DEFINE data == r.data
  <2>1. data \in Seq(WireByte) /\ Len(data) = e
    BY <1>f
  <2> HIDE DEF t, data
  <2>2. t \o data \in Seq(WireByte) /\ Len(t \o data) = Len(t) + Len(data)
    BY <1>t, <2>1, ConcatFacts
  <2> QED
    BY <1>t, <2>1, <2>2 DEF data
<1>r. ReadAs(r) = [type |-> r.type, id |-> r.id, prefix_id |-> <<>>, rest |-> u]
  BY DEF ReadAs
<1>l. Len(s) = HeaderLen + 3 + a + d + e
  BY <1>3, <1>5
<1> HIDE DEF p, f
<1>7. s[1] = <<"nlmsg_len", Len(s)>>
  <2>1. DataLength(r) + Len(r.data) = Len(s) /\ Len(s) \in Nat
    BY <1>4, <1>5, <1>l
  <2>2. Holds(s, 0, Header(Len(s), heap))
    BY <1>6, <2>1
  <2> QED
    BY <2>1, <2>2, FirstByte
<1>8. s[HeaderLen + 1] = r.type
  BY <1>1, <1>6, ByteFacts
<1>9. HasField(s, HeaderLen + 1) /\ Field(s, HeaderLen + 1) = r.id
  <2>1. s[HeaderLen + 1 + 1] = Fragments(r.id) % ByteRange
    BY <1>1, <1>6, ByteFacts DEF LengthByte
  <2>2. HeaderLen + 1 + 1 = HeaderLen + 2 /\ HeaderLen + 1 \in Nat
    BY <1>1
  <2>3. HeaderLen + 1 + 1 + Len(r.id) <= Len(s) /\ Len(s) \in Nat
    <3> HIDE DEF a, d, e
    <3>1. HeaderLen + 1 + 1 + a <= HeaderLen + 3 + a + d + e /\ HeaderLen + 3 + a + d + e \in Nat
      BY ONLY <1>1
    <3> QED
      BY ONLY <3>1, <1>l DEF a
  <2>4. Holds(s, HeaderLen + 1 + 1, r.id)
    BY <1>6, <2>2
  <2> QED
    BY <1>f, <2>1, <2>2, <2>3, <2>4, FieldRead
<1>11. After(s, HeaderLen + 2 + a) = u
  <2>1. HeaderLen + 2 + a \in Nat /\ HeaderLen + 2 + a + 1 = HeaderLen + 3 + a
        /\ HeaderLen + 2 + a + (1 + d) = HeaderLen + 3 + a + d
        /\ HeaderLen + 3 + a + d + e = HeaderLen + 2 + a + (1 + d + e)
    <3> HIDE DEF a, d, e
    <3> QED
      BY ONLY <1>1
  <2>2. Len(<<"strategy">>) = 1
    OBVIOUS
  <2>3. Holds(s, HeaderLen + 2 + a, <<"strategy">> \o r.options)
    <3> HIDE DEF a, d, e
    <3> QED
      BY <1>6, <1>f, <2>1, <2>2, HoldsTogether
  <2>4. Holds(s, HeaderLen + 2 + a, t \o r.data)
    <3>1. Holds(s, HeaderLen + 2 + a, t)
      BY <2>3
    <3> HIDE DEF a, d, e, t
    <3> QED
      BY <1>6, <1>f, <1>t, <2>1, <3>1, HoldsTogether
  <2>5. Len(s) = HeaderLen + 2 + a + Len(u)
    BY <1>l, <1>u, <2>1
  <2>6. Holds(s, HeaderLen + 2 + a, u)
    BY <2>4
  <2> HIDE DEF a, d, e, t, u
  <2> QED
    BY <1>5, <1>u, <2>1, <2>5, <2>6, RestRead
<1>12. HeaderLen + 2 + Len(r.id) = HeaderLen + 2 + a
  OBVIOUS
<1> HIDE DEF a, d, e, t, u
<1>13. Parse(s) = [type |-> r.type, id |-> r.id, prefix_id |-> <<>>, rest |-> u]
  BY ONLY <1>7, <1>8, <1>9, <1>11, <1>12, r.type = DataType DEF Parse
<1> QED
  BY <1>13, <1>r

(***************************************************************************)
(* What was sent is what the last call asked for.                          *)
(***************************************************************************)

WireInv ==
  /\ blocking /= NotSent =>
       /\ call \in ServiceCalls \union DataCalls
       /\ BlockingAccepts(BlockingRequest(call))
       /\ \E heap \in Heap : blocking = BlockingFrame(BlockingRequest(call), heap)
  /\ nonblocking /= NotSent =>
       /\ call \in ServiceCalls \union DataCalls
       /\ NBAccepts(Request(call))
       /\ \E heap \in Heap : nonblocking = NBFrame(Request(call), heap)

LEMMA WireInvInit == Init => WireInv
BY DEF Init, WireInv

LEMMA WireInvNext == WireInv /\ [Next]_vars => WireInv'
<1> SUFFICES ASSUME WireInv, [Next]_vars PROVE WireInv'
  OBVIOUS
<1>1. ASSUME NEW c \in ServiceCalls \union DataCalls, NEW heap \in Heap, NEW nbHeap \in Heap,
             Issue(c, heap, nbHeap)
      PROVE  WireInv'
  BY <1>1 DEF Issue, WireInv
<1>2. CASE Forget
  BY <1>2 DEF Forget, WireInv
<1>3. CASE UNCHANGED vars
  BY <1>3 DEF vars, WireInv
<1> QED
  BY <1>1, <1>2, <1>3 DEF Next, NodeSends, Peek, ReadEvent, ReadFails

LEMMA WireInvHolds == Spec => []WireInv
BY WireInvInit, WireInvNext, PTL DEF Spec

\* The request of a call, published up to length.
RequestOf(c, length) ==
  IF c.op \in ServiceOps THEN call_blackadder(c, Methods[c.op]) ELSE c_publish_data(c, length)

LEMMA RequestsOf ==
  ASSUME NEW c
  PROVE  /\ Request(c) = RequestOf(c, c.length)
         /\ BlockingRequest(c) = RequestOf(c, Len(c.data))
BY DEF Request, BlockingRequest, RequestOf, BlockingMethods

\* The type a method sends is the one its name says.
LEMMA TypeSent ==
  ASSUME NEW op \in ServiceOps
  PROVE  SentType[Methods[op]] = Named[op] /\ Named[op] \in WireTypes /\ Named[op] /= DataType
BY DEF ServiceOps, SentType, Methods, Named, WireTypes, DataType

LEMMA PrefixOfData ==
  ASSUME NEW s \in Seq(Text), NEW n \in 0..Len(s)
  PROVE  SubSeq(s, 1, n) \in Seq(Text)
OBVIOUS

LEMMA RequestOfCall ==
  ASSUME NEW c \in ServiceCalls \union DataCalls, NEW length \in 0..Len(c.data)
  PROVE  /\ WellFormed(RequestOf(c, length))
         /\ RequestOf(c, length).id = c.id
         /\ c.op \in ServiceOps => RequestOf(c, length).prefix_id = c.prefix_id
         /\ (RequestOf(c, length).type = DataType) = (c.op \notin ServiceOps)
         /\ ReadAs(RequestOf(c, length)) = Meaning(c, length)
<1> DEFINE r == RequestOf(c, length)
<1>1. CASE c.op \in ServiceOps
  <2>1. /\ r.type = Named[c.op] /\ r.id = c.id /\ r.prefix_id = c.prefix_id
        /\ r.options = StrOpt(c.options) /\ r.data = <<>>
    BY <1>1, TypeSent DEF RequestOf, call_blackadder
  <2>2. c.data = <<>> /\ length = 0 /\ <<>> \in Seq(Text)
    BY <1>1, CallFacts
  <2>3. SubSeq(c.data, 1, length) = <<>>
    BY <2>2
  <2>4. r.type \in WireTypes /\ r.type /= DataType
    BY <1>1, <2>1, TypeSent
  <2> HIDE DEF r
  <2>5. WellFormed(r)
    BY <2>1, <2>2, <2>4, CallFacts DEF WellFormed
  <2>6. ReadAs(r) = Meaning(c, length)
    BY <2>1, <2>3, <2>4 DEF ReadAs, Meaning
  <2> QED
    BY <1>1, <2>1, <2>4, <2>5, <2>6 DEF r
<1>2. CASE c.op \notin ServiceOps
  <2>1. /\ r.type = DataType /\ r.id = c.id /\ r.prefix_id = <<>>
        /\ r.options = StrOpt(c.options) /\ r.data = SubSeq(c.data, 1, length)
    BY <1>2 DEF RequestOf, c_publish_data
  <2>2. SubSeq(c.data, 1, length) \in Seq(Text) /\ <<>> \in Seq(Text)
    BY CallFacts, PrefixOfData
  <2>3. c.op = "publishData" /\ c.prefix_id = <<>>
    BY <1>2, CallFacts
  <2>4. Named[c.op] = DataType /\ DataType \in WireTypes
    BY <2>3 DEF Named, DataType, WireTypes
  <2> HIDE DEF r
  <2>5. WellFormed(r)
    BY <2>1, <2>2, <2>4, CallFacts DEF WellFormed
  <2>6. ReadAs(r) = Meaning(c, length)
    BY <2>1, <2>3, <2>4 DEF ReadAs, Meaning
  <2> QED
    BY <1>2, <2>1, <2>5, <2>6 DEF r
<1> QED
  BY <1>1, <1>2

LEMMA SameBytes == WireInv => LibrariesSendTheSame
<1> SUFFICES ASSUME WireInv, blocking /= NotSent, nonblocking /= NotSent,
                    call.length = Len(call.data)
             PROVE  SameButSeq(blocking, nonblocking)
  BY DEF LibrariesSendTheSame, SameButSeq
<1>1. /\ call \in ServiceCalls \union DataCalls
      /\ \E heap \in Heap : blocking = BlockingFrame(BlockingRequest(call), heap)
      /\ \E heap \in Heap : nonblocking = NBFrame(Request(call), heap)
  BY DEF WireInv
<1> DEFINE r == Request(call)
<1>2. BlockingRequest(call) = r
  BY RequestsOf
<1>3. WellFormed(r)
  <2>1. call.length \in 0..Len(call.data)
    BY <1>1, CallFacts
  <2> QED
    BY <1>1, <2>1, RequestOfCall, RequestsOf
<1>4. PICK heap \in Heap : blocking = BlockingFrame(r, heap)
  BY <1>1, <1>2
<1>5. PICK nbHeap \in Heap : nonblocking = NBFrame(r, nbHeap)
  BY <1>1
<1> HIDE DEF r
<1> QED
  BY <1>3, <1>4, <1>5, SameFrames

\* Whenever both wrappers send the same request, the iovec of the blocking library
\* and the copies of the non-blocking one come to the same bytes but for nlmsg_seq,
\* for any sizes of header and fragments and fields of any length, whatever malloc
\* leaves in either.
THEOREM BothLibrariesSendTheSame == Spec => []LibrariesSendTheSame
BY WireInvHolds, SameBytes, PTL

\* The node reads the frame of a request as the call meant it.
LEMMA Understood ==
  ASSUME NEW c \in ServiceCalls \union DataCalls, NEW length \in 0..Len(c.data), Countable(c),
         NEW r, r = RequestOf(c, length),
         IF r.type = DataType THEN WholeFragments(c.id) ELSE ServiceCheck(r),
         NEW heap \in Heap, NEW s, s = BlockingFrame(r, heap) \/ s = NBFrame(r, heap)
  PROVE  Parse(s) = Meaning(c, length)
<1>1. /\ WellFormed(r) /\ r.id = c.id /\ ReadAs(r) = Meaning(c, length)
      /\ c.op \in ServiceOps => r.prefix_id = c.prefix_id
      /\ (r.type = DataType) = (c.op \notin ServiceOps)
  BY RequestOfCall
<1>2. Gathers(WireByte, s, PiecesOf(r, heap), OffsetsOf(r), NumberOf(r))
  BY <1>1, BlockingGathers, NonblockingGathers
<1>3. WholeFragments(r.id)
  BY <1>1 DEF ServiceCheck
<1>4. Fragments(r.id) < ByteRange
  BY <1>1 DEF Countable
<1>5. CASE r.type = DataType
  BY <1>1, <1>2, <1>3, <1>4, <1>5, DataRead
<1>6. CASE r.type /= DataType
  <2>1. WholeFragments(r.prefix_id)
    BY <1>6 DEF ServiceCheck
  <2>2. Fragments(r.prefix_id) < ByteRange
    BY <1>1, <1>6 DEF Countable
  <2> QED
    BY <1>1, <1>2, <1>3, <1>4, <1>6, <2>1, <2>2, ServiceRead
<1> QED
  BY <1>5, <1>6

LEMMA SentUnderstood == WireInv => RequestsAreUnderstood
<1> SUFFICES ASSUME WireInv, Countable(call)
             PROVE  /\ nonblocking /= NotSent /\ (call.op = "publishData" => WholeFragments(call.id))
                         => Parse(nonblocking) = Meaning(call, call.length)
                    /\ blocking /= NotSent => Parse(blocking) = Meaning(call, Len(call.data))
  BY DEF RequestsAreUnderstood
<1>1. ASSUME nonblocking /= NotSent, call.op = "publishData" => WholeFragments(call.id)
      PROVE  Parse(nonblocking) = Meaning(call, call.length)
  <2> DEFINE r == RequestOf(call, call.length)
  <2>1. call \in ServiceCalls \union DataCalls /\ NBAccepts(Request(call))
    BY <1>1 DEF WireInv
  <2>2. call.length \in 0..Len(call.data) /\ Request(call) = r
    BY <2>1, CallFacts, RequestsOf
  <2>3. PICK heap \in Heap : nonblocking = NBFrame(r, heap)
    BY <1>1, <2>2 DEF WireInv
  <2>4. r.type = DataType => call.op = "publishData"
    BY <2>1, <2>2, CallFacts, RequestOfCall
  <2>5. NBAccepts(r)
    BY <2>1, <2>2
  <2> HIDE DEF r
  <2>6. IF r.type = DataType THEN WholeFragments(call.id) ELSE ServiceCheck(r)
    BY <1>1, <2>4, <2>5 DEF NBAccepts
  <2> QED
    BY <2>1, <2>2, <2>3, <2>6, Understood DEF r
<1>2. ASSUME blocking /= NotSent PROVE Parse(blocking) = Meaning(call, Len(call.data))
  <2> DEFINE r == RequestOf(call, Len(call.data))
  <2>1. call \in ServiceCalls \union DataCalls /\ BlockingAccepts(BlockingRequest(call))
    BY <1>2 DEF WireInv
  <2>2. Len(call.data) \in 0..Len(call.data) /\ BlockingRequest(call) = r
    <3>1. Len(call.data) \in Nat
      BY <2>1, CallFacts
    <3> QED
      BY <3>1, RequestsOf
  <2>3. PICK heap \in Heap : blocking = BlockingFrame(r, heap)
    BY <1>2, <2>2 DEF WireInv
  <2>4. r.id = call.id
    BY <2>1, <2>2, RequestOfCall
  <2>5. BlockingAccepts(r)
    BY <2>1, <2>2
  <2> HIDE DEF r
  <2>6. IF r.type = DataType THEN WholeFragments(call.id) ELSE ServiceCheck(r)
    BY <2>4, <2>5 DEF BlockingAccepts
  <2> QED
    BY <2>1, <2>2, <2>3, <2>6, Understood DEF r
<1> QED
  BY <1>1, <1>2

\* What the node reads from the bytes either library sends is what the Java caller
\* asked for, header, type, identifiers, options and data, whatever the lengths
\* and whatever malloc leaves in nlmsg_seq -- given fragments that a byte can count
\* and, where the library tests nothing (publishData of BAWrapperNB), an identifier
\* of whole fragments.  Everywhere else the library's tests provide them.
THEOREM NodeUnderstandsRequests == Spec => []RequestsAreUnderstood
BY WireInvHolds, SentUnderstood, PTL

=============================================================================
