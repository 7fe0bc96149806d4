-------------------------- MODULE BitvectorProofs --------------------------
(***************************************************************************)
(* Proofs about Bitvector: that the words an object works on are allocated, *)
(* for words and vectors of any size.                                      *)
(***************************************************************************)
EXTENDS Bitvector, TLAPS

Covers(v) == 0..Larger(max_word(v.max), MAX_INLINE_WORD) \subseteq DOMAIN v.data

\* Every object has its first word, even one that was used without care.
IsVector(v) ==
  /\ v = [max |-> v.max, data |-> v.data]
  /\ v.max \in Int /\ v.max >= -1
  /\ 0 \in DOMAIN v.data

Shape ==
  /\ vec = [x |-> vec.x, y |-> vec.y]
  /\ IsVector(vec.x) /\ IsVector(vec.y)
  /\ sound \subseteq {"x", "y"}

IInv == Shape /\ MemoryCoversSize

(***************************************************************************)
(* Words and sizes                                                         *)
(***************************************************************************)

\* What divides the inline sizes from the others.
LEMMA Division ==
  ASSUME NEW m \in Nat
  PROVE  /\ m \div WordBits \in Nat
         /\ m <= MAX_INLINE_BIT <=> m \div WordBits <= 1
<1>1. WordBits \in Nat /\ WordBits > 0
  BY SizesAssumption
<1> DEFINE q == m \div WordBits
           r == m % WordBits
<1>2. q \in Int /\ r \in 0..(WordBits - 1) /\ m = WordBits * q + r
  BY <1>1
<1> HIDE DEF q, r
<1>3. q >= 0
  <2>1. SUFFICES ASSUME q <= -1 PROVE FALSE
    BY <1>2
  <2>2. WordBits * q <= WordBits * (-1)
    BY <1>1, <1>2, <2>1
  <2> QED
    BY <1>1, <1>2, <2>2
<1>4. CASE q <= 1
  <2>1. WordBits * q <= WordBits * 1
    BY <1>1, <1>2, <1>4
  <2> QED
    BY <1>1, <1>2, <1>3, <1>4, <2>1 DEF MAX_INLINE_BIT, MAX_INLINE_WORD, q
<1>5. CASE q >= 2
  <2>1. WordBits * q >= WordBits * 2
    BY <1>1, <1>2, <1>5
  <2> QED
    BY <1>1, <1>2, <1>3, <1>5, <2>1 DEF MAX_INLINE_BIT, MAX_INLINE_WORD, q
<1> QED
  BY <1>2, <1>4, <1>5

LEMMA QuotientIsSmaller ==
  ASSUME NEW m \in Nat
  PROVE  m \div WordBits <= m
<1>1. WordBits \in Nat /\ WordBits > 0
  BY SizesAssumption
<1> DEFINE q == m \div WordBits
           r == m % WordBits
<1>2. q \in Nat /\ r \in 0..(WordBits - 1) /\ m = WordBits * q + r
  BY <1>1, Division
<1> HIDE DEF q, r
<1>3. WordBits * q >= 1 * q
  BY <1>1, <1>2
<1> QED
  BY <1>1, <1>2, <1>3 DEF q

LEMMA MaxWord ==
  ASSUME NEW max \in Int
  PROVE  /\ max_word(max) \in Int /\ max_word(max) >= -1
         /\ max <= MAX_INLINE_BIT <=> max_word(max) <= 1
         /\ max >= 0 => max_word(max) = max \div WordBits /\ max \div WordBits \in Nat
<1>1. CASE max < 0
  BY <1>1, SizesAssumption DEF max_word, MAX_INLINE_BIT, MAX_INLINE_WORD
<1>2. CASE max >= 0
  BY <1>2, Division DEF max_word
<1> QED
  BY <1>1, <1>2

(***************************************************************************)
(* The operations                                                          *)
(***************************************************************************)

\* The size and the allocated words are as before.
SameMemory(v, w) == IsVector(w) /\ w.max = v.max /\ DOMAIN w.data = DOMAIN v.data

LEMMA SameMemoryCovers ==
  ASSUME NEW v, NEW w, SameMemory(v, w), Covers(v)
  PROVE  Covers(w)
BY DEF SameMemory, Covers

LEMMA SameMemoryWith ==
  ASSUME NEW v, IsVector(v), NEW data, DOMAIN data = DOMAIN v.data
  PROVE  SameMemory(v, [v EXCEPT !.data = data])
BY DEF IsVector, SameMemory

LEMMA ResizedMemory ==
  ASSUME NEW v, IsVector(v), NEW n \in Nat, NEW junk
  PROVE  /\ IsVector(Resized(v, n, junk))
         /\ Resized(v, n, junk).max = n - 1
         /\ Covers(v) => Covers(Resized(v, n, junk))
<1> DEFINE w == Resized(v, n, junk)
           want == (n - 1) \div WordBits + 1
           have == Larger(max_word(v.max) + 1, MAX_INLINE_WORD + 1)
<1>1. w = [max |-> w.max, data |-> w.data] /\ w.max = n - 1 /\ n - 1 \in Int
  BY DEF Resized
<1>2. max_word(v.max) \in Int /\ max_word(n - 1) \in Int
  BY MaxWord DEF IsVector
<1>3. have \in Int /\ have >= 2 /\ have = Larger(max_word(v.max), MAX_INLINE_WORD) + 1
  BY <1>2 DEF Larger, MAX_INLINE_WORD
<1>4. CASE n - 1 > MAX_INLINE_BIT
  <2>1. n - 1 \in Nat /\ want \in Int /\ max_word(n - 1) = want - 1
    BY <1>1, <1>4, MaxWord, SizesAssumption DEF MAX_INLINE_BIT, MAX_INLINE_WORD
  <2>2. Larger(max_word(n - 1), MAX_INLINE_WORD) = want - 1 /\ want > 2
    <3>1. MAX_INLINE_BIT \in Int
      BY SizesAssumption DEF MAX_INLINE_BIT, MAX_INLINE_WORD
    <3>2. ~(max_word(n - 1) <= 1)
      BY <1>1, <1>4, <3>1, MaxWord
    <3> QED
      BY <1>2, <2>1, <3>2 DEF Larger, MAX_INLINE_WORD
  <2>3. w.data = resize_to_max(v.data, max_word(v.max) + 1, n - 1, junk)
    BY <1>4 DEF Resized
  <2>4. CASE want <= have
    <3>1. w.data = v.data
      BY <2>3, <2>4 DEF resize_to_max
    <3>2. 0..(want - 1) \subseteq 0..(have - 1)
      BY <1>3, <2>1, <2>4
    <3>3. IsVector(w)
      BY <1>1, <3>1 DEF IsVector
    <3>4. ASSUME Covers(v) PROVE Covers(w)
      <4>1. 0..(have - 1) \subseteq DOMAIN v.data
        BY <1>2, <1>3, <3>4 DEF Covers, Larger, MAX_INLINE_WORD
      <4> QED
        BY <1>1, <2>2, <3>1, <3>2, <4>1 DEF Covers
    <3> QED
      BY <1>1, <3>3, <3>4
  <2>5. CASE ~(want <= have)
    <3>1. w.data = Copied(v.data, have, want, junk)
      BY <2>3, <2>5 DEF resize_to_max
    <3>2. DOMAIN w.data = 0..(want - 1)
      BY <3>1 DEF Copied
    <3> QED
      BY <1>1, <2>1, <2>2, <3>2 DEF IsVector, Covers
  <2> QED
    BY <2>4, <2>5
<1>5. CASE ~(n - 1 > MAX_INLINE_BIT)
  <2>1. w.data = v.data
    BY <1>5 DEF Resized
  <2>2. max_word(n - 1) <= 1
    BY <1>1, <1>5, MaxWord, SizesAssumption DEF MAX_INLINE_BIT, MAX_INLINE_WORD
  <2>3. 0..Larger(max_word(n - 1), MAX_INLINE_WORD) \subseteq 0..Larger(max_word(v.max), MAX_INLINE_WORD)
    BY <1>2, <2>2 DEF Larger, MAX_INLINE_WORD
  <2> QED
    BY <1>1, <2>1, <2>3 DEF IsVector, Covers
<1> QED
  BY <1>4, <1>5

LEMMA ClearedMemory ==
  ASSUME NEW v, IsVector(v)
  PROVE  SameMemory(v, clear_last(v))
<1> DEFINE last == IF v.max < 0 THEN 0 ELSE v.max \div WordBits
           kept == IF v.max < 0 THEN {} ELSE 0..(v.max % WordBits)
           data == Replaced(v.data, last, last, LAMBDA i : v.data[i] \intersect kept)
<1>1. DOMAIN data = DOMAIN v.data
  BY DEF Replaced
<1>2. clear_last(v) = [v EXCEPT !.data = data]
  BY DEF clear_last
<1> HIDE DEF data
<1> QED
  BY <1>1, <1>2, SameMemoryWith

LEMMA AssignedMemory ==
  ASSUME NEW v, IsVector(v), NEW n \in Nat, NEW value \in BOOLEAN, NEW junk
  PROVE  /\ IsVector(Assigned(v, n, value, junk))
         /\ Assigned(v, n, value, junk).max = n - 1
         /\ Covers(v) => Covers(Assigned(v, n, value, junk))
<1> DEFINE resized == Resized(v, n, junk)
           copy == IF n > WordBits THEN max_word(resized.max) ELSE 0
           ones == IF value THEN WordBit ELSE {}
           data == Replaced(resized.data, 0, copy, LAMBDA i : ones)
           filled == [resized EXCEPT !.data = data]
<1>1. IsVector(resized) /\ resized.max = n - 1 /\ (Covers(v) => Covers(resized))
  BY ResizedMemory
<1>2. Assigned(v, n, value, junk) = IF value THEN clear_last(filled) ELSE filled
  BY DEF Assigned
<1>3. DOMAIN data = DOMAIN resized.data
  BY DEF Replaced
<1> HIDE DEF resized, data
<1>4. SameMemory(resized, filled)
  BY <1>1, <1>3, SameMemoryWith
<1> HIDE DEF filled
<1>5. SameMemory(filled, clear_last(filled))
  BY <1>4, ClearedMemory DEF SameMemory
<1>6. SameMemory(resized, Assigned(v, n, value, junk))
  BY <1>2, <1>4, <1>5 DEF SameMemory
<1> QED
  BY <1>1, <1>6, SameMemoryCovers DEF SameMemory

LEMMA NegatedMemory ==
  ASSUME NEW v, IsVector(v)
  PROVE  SameMemory(v, Negated(v))
<1> DEFINE data == Replaced(v.data, 0, max_word(v.max), LAMBDA i : WordBit \ v.data[i])
           inverse == [v EXCEPT !.data = data]
<1>1. DOMAIN data = DOMAIN v.data
  BY DEF Replaced
<1>2. Negated(v) = clear_last(inverse)
  BY DEF Negated
<1> HIDE DEF data
<1>3. SameMemory(v, inverse)
  BY <1>1, SameMemoryWith
<1> HIDE DEF inverse
<1> QED
  BY <1>2, <1>3, ClearedMemory DEF SameMemory

LEMMA CopiedMemory ==
  ASSUME NEW o, IsVector(o), NEW junk
  PROVE  IsVector(CopyOf(o, junk)) /\ CopyOf(o, junk).max = o.max /\ Covers(CopyOf(o, junk))
<1> DEFINE c == CopyOf(o, junk)
           words == IF o.max > MAX_INLINE_BIT THEN max_word(o.max) + 1 ELSE MAX_INLINE_WORD + 1
<1>1. c = [max |-> c.max, data |-> c.data] /\ c.max = o.max /\ DOMAIN c.data = 0..(words - 1)
  BY DEF CopyOf, Copied
<1>2. o.max \in Int /\ max_word(o.max) \in Int /\ MAX_INLINE_BIT \in Int
  BY MaxWord, SizesAssumption DEF IsVector, MAX_INLINE_BIT, MAX_INLINE_WORD
<1>3. words - 1 = Larger(max_word(o.max), MAX_INLINE_WORD) /\ words - 1 >= 1 /\ words - 1 \in Int
  BY <1>2, MaxWord DEF Larger, MAX_INLINE_WORD
<1> HIDE DEF c, words
<1>4. Covers(c)
  BY <1>1, <1>3 DEF Covers
<1>5. 0 \in DOMAIN c.data
  BY <1>1, <1>3
<1> QED
  BY <1>1, <1>2, <1>4, <1>5 DEF IsVector, c

LEMMA CombinedMemory ==
  ASSUME NEW v, IsVector(v), NEW o, NEW junk, NEW op
  PROVE  SameMemory(v, Combined(v, o, junk, op))
<1> DEFINE word(a, b) == CASE op = "and" -> a \intersect b
                           [] op = "or"  -> a \union b
                           [] op = "xor" -> (a \ b) \union (b \ a)
           data == Replaced(v.data, 0, max_word(v.max), LAMBDA i : word(v.data[i], Read(o.data, i, junk)))
<1>1. DOMAIN data = DOMAIN v.data
  BY DEF Replaced
<1>2. Combined(v, o, junk, op) = [v EXCEPT !.data = data]
  BY DEF Combined
<1> HIDE DEF data
<1> QED
  BY <1>1, <1>2, SameMemoryWith

LEMMA OffsetMemory ==
  ASSUME NEW v, IsVector(v), NEW o, NEW offset, NEW junk
  PROVE  SameMemory(v, OffsetOr(v, o, offset, junk))
<1> DEFINE shift == offset % WordBits
           first == offset \div WordBits
           last == Larger(max_word(o.max), 0)
           from(i) == (IF i - first \in 0..last
                       THEN ShiftedUp(Read(o.data, i - first, junk), shift) ELSE {})
                      \union
                      (IF i - first - 1 \in 0..last
                       THEN Carried(Read(o.data, i - first - 1, junk), shift) ELSE {})
           data == Replaced(v.data, first, max_word(v.max), LAMBDA i : v.data[i] \union from(i))
<1>1. DOMAIN data = DOMAIN v.data
  BY DEF Replaced
<1>2. OffsetOr(v, o, offset, junk) = [v EXCEPT !.data = data]
  BY DEF OffsetOr
<1> HIDE DEF data
<1> QED
  BY <1>1, <1>2, SameMemoryWith

LEMMA SetMemory ==
  ASSUME NEW v, IsVector(v), NEW i, NEW value
  PROVE  SameMemory(v, SetTo(v, i, value))
BY DEF SetTo, IsVector, SameMemory

\* An assignment of up to two words needs the second word.
LEMMA AssignedFromMemory ==
  ASSUME NEW v, IsVector(v), NEW o, IsVector(o), NEW junk
  PROVE  /\ IsVector(AssignedFrom(v, o, junk))
         /\ 1 \in DOMAIN v.data \/ o.max > MAX_INLINE_BIT => Covers(AssignedFrom(v, o, junk))
<1> DEFINE w == AssignedFrom(v, o, junk)
<1>1. o.max \in Int /\ max_word(o.max) \in Int /\ MAX_INLINE_BIT \in Int
  BY MaxWord, SizesAssumption DEF IsVector, MAX_INLINE_BIT, MAX_INLINE_WORD
<1>2. w = [max |-> w.max, data |-> w.data] /\ w.max = o.max
  BY DEF AssignedFrom
<1>3. CASE max_word(o.max) <= MAX_INLINE_WORD
  <2>1. DOMAIN w.data = DOMAIN v.data
    BY <1>3 DEF AssignedFrom, Replaced
  <2>2. ~(o.max > MAX_INLINE_BIT) /\ Larger(max_word(o.max), MAX_INLINE_WORD) = 1
    BY <1>1, <1>3, MaxWord DEF Larger, MAX_INLINE_WORD
  <2>3. 0..1 = {0, 1}
    OBVIOUS
  <2> QED
    BY <1>1, <1>2, <2>1, <2>2, <2>3 DEF IsVector, Covers
<1>4. CASE ~(max_word(o.max) <= MAX_INLINE_WORD)
  <2> DEFINE k == max_word(o.max) + 1
  <2>1. DOMAIN w.data = 0..(k - 1)
    <3>1. w.data = Copied(o.data, k, k, junk)
      BY <1>4 DEF AssignedFrom
    <3>2. DOMAIN Copied(o.data, k, k, junk) = 0..(k - 1)
      BY DEF Copied
    <3> QED
      BY <3>1, <3>2
  <2>2. Larger(max_word(o.max), MAX_INLINE_WORD) = max_word(o.max) /\ max_word(o.max) > 1
    BY <1>1, <1>4 DEF Larger, MAX_INLINE_WORD
  <2> QED
    BY <1>1, <1>2, <2>1, <2>2 DEF IsVector, Covers
<1> QED
  BY <1>3, <1>4

LEMMA StringMemory ==
  ASSUME NEW n \in Nat, NEW ones, NEW junk, n > 0
  PROVE  /\ IsVector(FromString(n, ones, junk))
         /\ n > 1 => Covers(FromString(n, ones, junk))
<1> DEFINE w == FromString(n, ones, junk)
<1>1. w = [max |-> w.max, data |-> w.data] /\ w.max = n - 1 /\ DOMAIN w.data = 0..(n - 1)
  BY DEF FromString
<1> HIDE DEF w
<1>2. IsVector(w)
  BY <1>1 DEF IsVector
<1>3. ASSUME n > 1 PROVE Covers(w)
  <2>1. n - 1 \in Nat /\ max_word(n - 1) \in Int /\ max_word(n - 1) <= n - 1
    <3>1. n - 1 \in Nat /\ max_word(n - 1) = (n - 1) \div WordBits /\ (n - 1) \div WordBits \in Nat
      BY <1>3, MaxWord
    <3>2. (n - 1) \div WordBits <= n - 1
      BY <3>1, QuotientIsSmaller
    <3> QED
      BY <3>1, <3>2
  <2>2. 0..Larger(max_word(n - 1), MAX_INLINE_WORD) \subseteq 0..(n - 1)
    BY <1>3, <2>1 DEF Larger, MAX_INLINE_WORD
  <2> QED
    BY <1>1, <2>2 DEF Covers
<1> QED
  BY <1>2, <1>3 DEF w

(***************************************************************************)
(* The steps                                                               *)
(***************************************************************************)

LEMMA SoundCovers ==
  MemoryCoversSize <=> \A s \in sound : Covers(vec[s])
BY DEF MemoryCoversSize, Covers

\* x becomes another vector, which covers its size if x is sound from then on.
LEMMA BecomesInv ==
  ASSUME IInv, NEW v, NEW b, NEW careful, Becomes(v, b, careful),
         IsVector(v), careful => Covers(v)
  PROVE  IInv'
<1>1. /\ vec' = [vec EXCEPT !.x = v]
      /\ sound' = IF careful THEN sound \union {"x"} ELSE sound \ {"x"}
  BY DEF Becomes
<1>2. vec'.x = v /\ vec'.y = vec.y /\ vec' = [x |-> v, y |-> vec.y]
  BY <1>1 DEF IInv, Shape
<1>3. Shape'
  BY <1>1, <1>2 DEF IInv, Shape, IsVector
<1>4. ASSUME NEW s \in sound' PROVE Covers(vec'[s])
  <2>1. CASE s = "x"
    BY <1>1, <1>2, <1>4, <2>1
  <2>2. CASE s /= "x"
    <3>1. s = "y" /\ s \in sound
      BY <1>1, <2>2 DEF IInv, Shape
    <3> QED
      BY <1>2, <3>1, SoundCovers DEF IInv
  <2> QED
    BY <2>1, <2>2
<1>5. MemoryCoversSize'
  BY <1>4 DEF MemoryCoversSize, Covers
<1> QED
  BY <1>3, <1>5 DEF IInv

\* x is worked on, and stays sound only if it was.
LEMMA OperatedInv ==
  ASSUME IInv, NEW v, NEW b, NEW careful, Operated(v, b, careful),
         IsVector(v), Covers(vec.x) => Covers(v)
  PROVE  IInv'
<1>1. Becomes(v, b, careful /\ "x" \in sound)
  BY DEF Operated
<1>2. careful /\ "x" \in sound => Covers(v)
  BY SoundCovers DEF IInv
<1> QED
  BY <1>1, <1>2, BecomesInv

LEMMA SameMemoryInv ==
  ASSUME IInv, NEW v, NEW b, NEW careful, Operated(v, b, careful), SameMemory(vec.x, v)
  PROVE  IInv'
BY OperatedInv, SameMemoryCovers DEF SameMemory

LEMMA DefaultMemory == IsVector(Default) /\ Covers(Default)
<1>1. Default = [max |-> -1, data |-> Default.data] /\ Default.max = -1 /\ DOMAIN Default.data = 0..1
  BY DEF Default, Inline, MAX_INLINE_WORD
<1>2. Larger(max_word(-1), MAX_INLINE_WORD) = 1
  BY DEF max_word, Larger, MAX_INLINE_WORD
<1> QED
  BY <1>1, <1>2 DEF IsVector, Covers

LEMMA IInvInit == Init => IInv
<1> SUFFICES ASSUME Init PROVE IInv
  OBVIOUS
<1>1. Shape
  BY DefaultMemory DEF Init, Shape
<1>2. MemoryCoversSize
  BY DefaultMemory, SoundCovers DEF Init
<1> QED
  BY <1>1, <1>2 DEF IInv

LEMMA StepConstructSize ==
  ASSUME IInv, NEW n \in Sizes, NEW bit \in BOOLEAN, ConstructSize(n, bit)
  PROVE  IInv'
<1> DEFINE new == [max |-> n - 1,
                   data |-> IF n - 1 > MAX_INLINE_BIT
                            THEN resize_to_max(Inline({}), 0, n - 1, {}) ELSE Inline({})]
<1>1. n \in Nat
  BY SizesAssumption DEF Sizes
<1>2. new = Resized(Default, n, {})
  BY DEF Resized, Default, max_word
<1>3. IsVector(new) /\ Covers(new)
  BY <1>1, <1>2, DefaultMemory, ResizedMemory
<1>4. PICK b : Becomes(IF bit THEN Assigned(new, n, bit, {}) ELSE new, b, TRUE)
  BY DEF ConstructSize
<1> HIDE DEF new
<1>5. IsVector(Assigned(new, n, bit, {})) /\ Covers(Assigned(new, n, bit, {}))
  BY <1>1, <1>3, AssignedMemory
<1> QED
  BY <1>3, <1>4, <1>5, BecomesInv

\* A string that counts as careful has more than one character, hence more than
\* one word.
LEMMA StepConstructString ==
  ASSUME IInv, \A k \in Sizes : ClearedBits[k] > MAX_INLINE_BIT => k > 1,
         NEW n \in 1..MaxString, NEW ones, ConstructString(n, ones)
  PROVE  IInv'
<1>1. n \in Nat /\ n > 0 /\ n \in Sizes
  BY SizesAssumption DEF Sizes
<1>2. PICK junk \in Words :
        Becomes(FromString(n, ones, junk), ones, ClearedBits[n] > MAX_INLINE_BIT)
  BY DEF ConstructString
<1>3. IsVector(FromString(n, ones, junk)) /\ (n > 1 => Covers(FromString(n, ones, junk)))
  BY <1>1, StringMemory
<1>4. ClearedBits[n] > MAX_INLINE_BIT => Covers(FromString(n, ones, junk))
  BY <1>1, <1>3
<1> QED
  BY <1>2, <1>3, <1>4, BecomesInv

LEMMA StepConstructCopy == ASSUME IInv, ConstructCopy PROVE IInv'
<1>1. PICK junk : Becomes(CopyOf(vec.y, junk), bits.y, "y" \in sound)
  BY DEF ConstructCopy
<1>2. IsVector(CopyOf(vec.y, junk)) /\ Covers(CopyOf(vec.y, junk))
  BY CopiedMemory DEF IInv, Shape
<1> QED
  BY <1>1, <1>2, BecomesInv

LEMMA StepDestroy == ASSUME IInv, Destroy PROVE IInv'
BY DefaultMemory, BecomesInv DEF Destroy

LEMMA StepClear == ASSUME IInv, Clear PROVE IInv'
<1> DEFINE data == Replaced(vec.x.data, 0, max_word(vec.x.max), LAMBDA i : {})
           v == [vec.x EXCEPT !.data = data]
<1>1. DOMAIN data = DOMAIN vec.x.data
  BY DEF Replaced
<1>2. Operated(v, {}, TRUE)
  BY DEF Clear
<1> HIDE DEF data
<1>3. SameMemory(vec.x, v)
  BY <1>1, SameMemoryWith DEF IInv, Shape
<1> QED
  BY <1>2, <1>3, SameMemoryInv

LEMMA StepResize == ASSUME IInv, NEW n \in Sizes, Resize(n) PROVE IInv'
<1>1. PICK junk, b, careful : Operated(Resized(vec.x, n, junk), b, careful)
  BY DEF Resize
<1>2. n \in Nat /\ IsVector(vec.x)
  BY SizesAssumption DEF Sizes, IInv, Shape
<1> QED
  BY <1>1, <1>2, ResizedMemory, OperatedInv

LEMMA StepAssign ==
  ASSUME IInv, NEW n \in Sizes, NEW value \in BOOLEAN, Assign(n, value)
  PROVE  IInv'
<1>1. PICK junk, b, careful : Operated(Assigned(vec.x, n, value, junk), b, careful)
  BY DEF Assign
<1>2. n \in Nat /\ IsVector(vec.x)
  BY SizesAssumption DEF Sizes, IInv, Shape
<1> QED
  BY <1>1, <1>2, AssignedMemory, OperatedInv

LEMMA StepSetBit ==
  ASSUME IInv, NEW i, NEW value, SetBit(i, value)
  PROVE  IInv'
<1>1. PICK b : Operated(SetTo(vec.x, i, value), b, TRUE)
  BY DEF SetBit
<1>2. SameMemory(vec.x, SetTo(vec.x, i, value))
  BY SetMemory DEF IInv, Shape
<1> QED
  BY <1>1, <1>2, SameMemoryInv

LEMMA StepForceBit ==
  ASSUME IInv, NEW i \in Nat, NEW value, ForceBit(i, value)
  PROVE  IInv'
<1>1. PICK junk : Operated(SetTo(Resized(vec.x, i + 1, junk), i, value),
                           bits.x \union {j \in {i} : value}, TRUE)
  BY DEF ForceBit
<1> DEFINE w == Resized(vec.x, i + 1, junk)
<1>2. IsVector(w) /\ (Covers(vec.x) => Covers(w))
  BY i + 1 \in Nat, ResizedMemory DEF IInv, Shape
<1> HIDE DEF w
<1>3. SameMemory(w, SetTo(w, i, value))
  BY <1>2, SetMemory
<1>4. Covers(vec.x) => Covers(SetTo(w, i, value))
  BY <1>2, <1>3, SameMemoryCovers
<1> QED
  BY <1>1, <1>3, <1>4, OperatedInv DEF SameMemory, w

LEMMA StepNegate == ASSUME IInv, Negate PROVE IInv'
BY NegatedMemory, SameMemoryInv DEF Negate, IInv, Shape

LEMMA StepAssignment == ASSUME IInv, Assignment PROVE IInv'
<1>1. PICK junk : Becomes(AssignedFrom(vec.x, vec.y, junk), bits.y,
                    "y" \in sound /\ (1 \in DOMAIN vec.x.data \/ vec.y.max > MAX_INLINE_BIT))
  BY DEF Assignment
<1>2. IsVector(vec.x) /\ IsVector(vec.y)
  BY DEF IInv, Shape
<1> QED
  BY <1>1, <1>2, AssignedFromMemory, BecomesInv

LEMMA StepAnd == ASSUME IInv, And PROVE IInv'
<1>1. PICK junk, b, careful : Operated(Combined(vec.x, vec.y, junk, "and"), b, careful)
  BY DEF And
<1> QED
  BY <1>1, CombinedMemory, SameMemoryInv DEF IInv, Shape

LEMMA StepXor == ASSUME IInv, Xor PROVE IInv'
<1>1. PICK junk, b, careful : Operated(Combined(vec.x, vec.y, junk, "xor"), b, careful)
  BY DEF Xor
<1> QED
  BY <1>1, CombinedMemory, SameMemoryInv DEF IInv, Shape

LEMMA StepMinus == ASSUME IInv, Minus PROVE IInv'
<1>1. PICK junk, b, careful :
        Operated(Combined(vec.x, Negated(CopyOf(vec.y, junk)), junk, "and"), b, careful)
  BY DEF Minus
<1> QED
  BY <1>1, CombinedMemory, SameMemoryInv DEF IInv, Shape

\* x grows to the size of y first; a vector of size max + 1 has at least none.
LEMMA StepOr == ASSUME IInv, Or PROVE IInv'
<1>1. PICK junk, b, careful :
        Operated(Combined(IF vec.y.max > vec.x.max THEN Resized(vec.x, vec.y.max + 1, junk) ELSE vec.x,
                          vec.y, junk, "or"), b, careful)
  BY DEF Or
<1> DEFINE wide == IF vec.y.max > vec.x.max THEN Resized(vec.x, vec.y.max + 1, junk) ELSE vec.x
<1>2. IsVector(wide) /\ (Covers(vec.x) => Covers(wide))
  <2>1. vec.y.max > vec.x.max => vec.y.max + 1 \in Nat
    BY DEF IInv, Shape, IsVector
  <2> QED
    BY <2>1, ResizedMemory DEF IInv, Shape
<1> HIDE DEF wide
<1>3. SameMemory(wide, Combined(wide, vec.y, junk, "or"))
  BY <1>2, CombinedMemory
<1>4. Covers(vec.x) => Covers(Combined(wide, vec.y, junk, "or"))
  BY <1>2, <1>3, SameMemoryCovers
<1> QED
  BY <1>1, <1>3, <1>4, OperatedInv DEF SameMemory, wide

LEMMA StepOffset == ASSUME IInv, NEW offset, Offset(offset) PROVE IInv'
<1>1. PICK junk, b, careful : Operated(OffsetOr(vec.x, vec.y, offset, junk), b, careful)
  BY DEF Offset
<1> QED
  BY <1>1, OffsetMemory, SameMemoryInv DEF IInv, Shape

LEMMA StepSwap == ASSUME IInv, Swap PROVE IInv'
<1>1. vec' = [x |-> vec.y, y |-> vec.x] /\ vec'.x = vec.y /\ vec'.y = vec.x
  BY DEF Swap
<1>2. sound' \subseteq {"x", "y"} /\ ("x" \in sound' => "y" \in sound) /\ ("y" \in sound' => "x" \in sound)
  BY DEF Swap, IInv, Shape
<1>3. Shape'
  BY <1>1, <1>2 DEF IInv, Shape, IsVector
<1>4. ASSUME NEW s \in sound' PROVE Covers(vec'[s])
  BY <1>1, <1>2, <1>4, SoundCovers DEF IInv
<1>5. MemoryCoversSize'
  BY <1>4 DEF MemoryCoversSize, Covers
<1> QED
  BY <1>3, <1>5 DEF IInv

LEMMA StepOrWithDifference == ASSUME IInv, OrWithDifference PROVE IInv'
<1>1. PICK junk :
        LET diff == Resized(CopyOf(vec.y, junk), vec.x.max + 1, junk)
        IN vec' = [x |-> Combined(vec.x, vec.y, junk, "or"),
                   y |-> [diff EXCEPT !.data =
                           Replaced(@, 0, max_word(vec.x.max),
                                    LAMBDA i : Read(vec.y.data, i, junk) \ vec.x.data[i])]]
  BY DEF OrWithDifference
<1>2. sound' \subseteq sound /\ (sound' /= {} => sound = {"x", "y"})
  BY DEF OrWithDifference
<1> DEFINE c == CopyOf(vec.y, junk)
           diff == Resized(c, vec.x.max + 1, junk)
           data == Replaced(diff.data, 0, max_word(vec.x.max),
                            LAMBDA i : Read(vec.y.data, i, junk) \ vec.x.data[i])
           v == Combined(vec.x, vec.y, junk, "or")
           w == [diff EXCEPT !.data = data]
<1>3. vec' = [x |-> v, y |-> w]
  BY <1>1
<1>4. IsVector(c) /\ Covers(c)
  BY CopiedMemory DEF IInv, Shape
<1>5. SameMemory(vec.x, v)
  BY CombinedMemory DEF IInv, Shape
<1> HIDE DEF c, v
<1>6. IsVector(diff) /\ Covers(diff)
  <2>1. vec.x.max + 1 \in Nat
    BY DEF IInv, Shape, IsVector
  <2> QED
    BY <1>4, <2>1, ResizedMemory
<1>7. DOMAIN data = DOMAIN diff.data
  BY DEF Replaced
<1> HIDE DEF diff, data
<1>8. SameMemory(diff, w)
  BY <1>6, <1>7, SameMemoryWith
<1> HIDE DEF w
<1>9. IsVector(v) /\ IsVector(w) /\ Covers(w) /\ (Covers(vec.x) => Covers(v))
  BY <1>5, <1>6, <1>8, SameMemoryCovers DEF SameMemory
<1>10. vec'.x = v /\ vec'.y = w
  BY <1>3
<1>11. Shape'
  BY <1>2, <1>3, <1>9, <1>10 DEF IInv, Shape, IsVector
<1>12. ASSUME NEW s \in sound' PROVE Covers(vec'[s])
  <2>1. Covers(vec.x)
    BY <1>2, <1>12, SoundCovers DEF IInv
  <2> QED
    BY <1>2, <1>9, <1>10, <1>12, <2>1
<1>13. MemoryCoversSize'
  BY <1>12 DEF MemoryCoversSize, Covers
<1> QED
  BY <1>11, <1>13 DEF IInv

\* One cleared byte is not more than the inline words.
OneByteIsInline == \A n \in Sizes : ClearedBits[n] > MAX_INLINE_BIT => n > 1

LEMMA IInvNext ==
  ASSUME OneByteIsInline
  PROVE  IInv /\ [Next]_vars => IInv'
<1> SUFFICES ASSUME IInv, [Next]_vars PROVE IInv'
  OBVIOUS
<1>1. CASE \E n \in Sizes, bit \in BOOLEAN : ConstructSize(n, bit)
  BY <1>1, StepConstructSize
<1>2. CASE \E n \in 1..MaxString : \E ones \in SUBSET (0..(n - 1)) : ConstructString(n, ones)
  BY <1>2, StepConstructString DEF OneByteIsInline
<1>3. CASE ConstructCopy \/ Destroy \/ Clear
  BY <1>3, StepConstructCopy, StepDestroy, StepClear
<1>4. CASE \E n \in Sizes : Resize(n)
  BY <1>4, StepResize
<1>5. CASE \E n \in Sizes, value \in BOOLEAN : Assign(n, value)
  BY <1>5, StepAssign
<1>6. CASE \E i \in 0..(MaxSize - 1), value \in BOOLEAN : SetBit(i, value) \/ ForceBit(i, value)
  <2>1. PICK i \in 0..(MaxSize - 1), value \in BOOLEAN : SetBit(i, value) \/ ForceBit(i, value)
    BY <1>6
  <2>2. i \in Nat
    BY SizesAssumption
  <2> QED
    BY <2>1, <2>2, StepSetBit, StepForceBit
<1>7. CASE Negate \/ Assignment \/ And \/ Or \/ Xor \/ Minus
  BY <1>7, StepNegate, StepAssignment, StepAnd, StepOr, StepXor, StepMinus
<1>8. CASE \E offset \in 0..(MaxSize - 1) : Offset(offset)
  BY <1>8, StepOffset
<1>9. CASE OrWithDifference \/ Swap
  BY <1>9, StepOrWithDifference, StepSwap
<1>10. CASE UNCHANGED vars
  BY <1>10 DEF vars, IInv, Shape, IsVector, MemoryCoversSize
<1> QED
  BY <1>1, <1>2, <1>3, <1>4, <1>5, <1>6, <1>7, <1>8, <1>9, <1>10 DEF Next

\* All words that a vector's size stands for are allocated, and the two words that
\* are touched whatever the size, after any sequence of operations with care, for
\* words and vectors of any length.  Of the code OneByteIsInline is true: a byte is
\* cleared for each character, and 63 is the last inline bit.
THEOREM MemoryAlwaysCoversSize ==
  ASSUME OneByteIsInline
  PROVE  Spec => []MemoryCoversSize
<1>1. IInv /\ [Next]_vars => IInv'
  BY IInvNext
<1>2. IInv => MemoryCoversSize
  BY DEF IInv
<1> QED
  BY <1>1, <1>2, IInvInit, PTL DEF Spec
=============================================================================
