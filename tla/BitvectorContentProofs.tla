----------------------- MODULE BitvectorContentProofs -----------------------
(***************************************************************************)
(* Proofs about Bitvector: that an object used with care holds the bits it  *)
(* should, and answers for them, for words and vectors of any size.        *)
(*                                                                         *)
(* The invariant speaks of words: each word of a sound object is the part   *)
(* of its bits that falls into the word, up to its last inline word even   *)
(* if the object is shorter.  An operation on words is then an operation   *)
(* on sets, but for offset_or, whose words mix two words of its operand.   *)
(***************************************************************************)
EXTENDS BitvectorProofs

\* The part of the bits b that falls into word i.
Word(b, i) == {c \in WordBit : i * WordBits + c \in b}

\* The last word that an object of this size works on or shows to ==.
LastWord(max) == Larger(max_word(max), MAX_INLINE_WORD)

\* v holds the bits b.
Holds(v, b) ==
  /\ b \subseteq 0..v.max
  /\ \A i \in 0..LastWord(v.max) : v.data[i] = Word(b, i)

WordsAgree == \A s \in sound : Holds(vec[s], bits[s])

\* There are bits for both objects.
Contained == bits = [x |-> bits.x, y |-> bits.y]

CInv == IInv /\ Contained /\ WordsAgree

\* An object that can be worked on, and holds the bits b.
Good(v, b) == IsVector(v) /\ Covers(v) /\ Holds(v, b)

(***************************************************************************)
(* Words and bits                                                          *)
(***************************************************************************)

LEMMA WordSize == WordBits \in Nat /\ WordBits > 0
BY SizesAssumption

\* Every bit is in one word, at one place.
LEMMA BitOfWord ==
  ASSUME NEW i \in Nat
  PROVE  /\ i \div WordBits \in Nat
         /\ i % WordBits \in WordBit
         /\ i = (i \div WordBits) * WordBits + (i % WordBits)
<1> DEFINE q == i \div WordBits
           r == i % WordBits
<1>1. q \in Nat
  BY Division
<1>2. r \in 0..(WordBits - 1) /\ i = WordBits * q + r
  BY WordSize
<1> HIDE DEF q, r
<1>3. WordBits * q = q * WordBits
  BY WordSize, <1>1
<1> QED
  BY <1>1, <1>2, <1>3 DEF WordBit, q, r

LEMMA OnePlace ==
  ASSUME NEW k \in Int, NEW c \in WordBit, NEW l \in Int, NEW d \in WordBit,
         k * WordBits + c = l * WordBits + d
  PROVE  k = l /\ c = d
<1>1. c \in Int /\ d \in Int /\ c >= 0 /\ d >= 0 /\ c < WordBits /\ d < WordBits
  BY WordSize DEF WordBit
<1>2. k * WordBits \in Int /\ l * WordBits \in Int
  BY WordSize
<1>3. ~(k < l)
  <2>1. SUFFICES ASSUME k + 1 <= l PROVE FALSE
    OBVIOUS
  <2>2. (k + 1) * WordBits <= l * WordBits
    BY WordSize, <2>1
  <2>3. (k + 1) * WordBits = k * WordBits + WordBits
    BY WordSize
  <2> QED
    BY <1>1, <1>2, <2>2, <2>3, WordSize
<1>4. ~(l < k)
  <2>1. SUFFICES ASSUME l + 1 <= k PROVE FALSE
    OBVIOUS
  <2>2. (l + 1) * WordBits <= k * WordBits
    BY WordSize, <2>1
  <2>3. (l + 1) * WordBits = l * WordBits + WordBits
    BY WordSize
  <2> QED
    BY <1>1, <1>2, <2>2, <2>3, WordSize
<1>5. k = l
  BY <1>3, <1>4
<1> QED
  BY <1>1, <1>2, <1>5

\* A bit is in a word of the vector just if it is not beyond the last one.
LEMMA WordInSize ==
  ASSUME NEW max \in Int, max >= -1, NEW k \in Nat, NEW c \in WordBit
  PROVE  /\ k * WordBits + c \in Nat
         /\ k * WordBits + c <= max => k <= max_word(max)
         /\ k < max_word(max) => k * WordBits + c < max
<1>1. c \in Nat /\ c < WordBits
  BY WordSize DEF WordBit
<1>2. k * WordBits \in Nat
  BY WordSize
<1>3. CASE max < 0
  BY <1>1, <1>2, <1>3 DEF max_word
<1>4. CASE max >= 0
  <2> DEFINE q == max \div WordBits
             r == max % WordBits
  <2>1. max \in Nat /\ max_word(max) = q
    BY <1>4 DEF max_word
  <2>2. q \in Nat /\ r \in WordBit /\ max = q * WordBits + r
    BY <2>1, BitOfWord
  <2> HIDE DEF q, r
  <2>3. r \in Nat /\ r < WordBits /\ q * WordBits \in Nat
    BY <2>2, WordSize DEF WordBit
  <2>4. ASSUME k > q PROVE k * WordBits + c > max
    <3>1. (q + 1) * WordBits <= k * WordBits
      BY WordSize, <2>2, <2>4
    <3>2. (q + 1) * WordBits = q * WordBits + WordBits
      BY WordSize, <2>2
    <3> QED
      BY <1>1, <1>2, <2>2, <2>3, <3>1, <3>2, WordSize
  <2>5. ASSUME k < q PROVE k * WordBits + c < max
    <3>1. (k + 1) * WordBits <= q * WordBits
      BY WordSize, <2>2, <2>5
    <3>2. (k + 1) * WordBits = k * WordBits + WordBits
      BY WordSize
    <3> QED
      BY <1>1, <1>2, <2>2, <2>3, <3>1, <3>2, WordSize
  <2> QED
    BY <1>1, <1>2, <2>1, <2>2, <2>4, <2>5
<1> QED
  BY <1>3, <1>4

LEMMA BitInSize ==
  ASSUME NEW max \in Int, max >= -1, NEW i \in 0..max
  PROVE  i \div WordBits \in 0..max_word(max)
<1>1. i \in Nat /\ i <= max
  OBVIOUS
<1>2. i \div WordBits \in Nat /\ i % WordBits \in WordBit
      /\ i = (i \div WordBits) * WordBits + (i % WordBits)
  BY <1>1, BitOfWord
<1>3. max_word(max) \in Int
  BY MaxWord
<1>4. i \div WordBits <= max_word(max)
  BY <1>1, <1>2, WordInSize
<1> QED
  BY <1>2, <1>3, <1>4

\* There is nothing in the words beyond the size.
LEMMA WordBeyond ==
  ASSUME NEW max \in Int, max >= -1, NEW b, b \subseteq 0..max,
         NEW k \in Nat, k > max_word(max)
  PROVE  Word(b, k) = {}
<1>1. max_word(max) \in Int
  BY MaxWord
<1>2. ASSUME NEW c \in WordBit, k * WordBits + c \in b PROVE FALSE
  BY <1>1, <1>2, WordInSize
<1> QED
  BY <1>2 DEF Word

\* Bit i of b is bit i % WordBits of its word.
LEMMA BitInWord ==
  ASSUME NEW b, NEW i \in Nat
  PROVE  i \in b <=> (i % WordBits) \in Word(b, i \div WordBits)
BY BitOfWord DEF Word

LEMMA LastWordIs ==
  ASSUME NEW max \in Int
  PROVE  /\ LastWord(max) \in Nat /\ LastWord(max) >= 1
         /\ max_word(max) \in Int /\ max_word(max) >= -1 /\ max_word(max) <= LastWord(max)
         /\ LastWord(max) > 1 => LastWord(max) = max_word(max)
BY MaxWord DEF LastWord, Larger, MAX_INLINE_WORD

\* Bits that agree in all words up to the last are the same.
LEMMA SameWords ==
  ASSUME NEW max \in Int, max >= -1, NEW b, b \subseteq 0..max, NEW d, d \subseteq 0..max,
         \A i \in 0..max_word(max) : Word(b, i) = Word(d, i)
  PROVE  b = d
<1>1. ASSUME NEW i \in 0..max PROVE i \in b <=> i \in d
  <2>1. i \in Nat /\ i \div WordBits \in 0..max_word(max)
    BY BitInSize
  <2> QED
    BY <2>1, BitInWord
<1> QED
  BY <1>1

LEMMA WordEmpty == ASSUME NEW i PROVE Word({}, i) = {}
BY DEF Word

(***************************************************************************)
(* The questions                                                           *)
(***************************************************************************)

LEMMA GoodIs ==
  ASSUME NEW v, NEW b, Good(v, b)
  PROVE  /\ v.max \in Int /\ v.max >= -1 /\ b \subseteq 0..v.max
         /\ \A i \in 0..LastWord(v.max) : i \in DOMAIN v.data /\ v.data[i] = Word(b, i)
BY DEF Good, IsVector, Covers, Holds, LastWord

LEMMA ContentsOfGood ==
  ASSUME NEW v, NEW b, Good(v, b)
  PROVE  Contents(v) = b
<1>1. v.max \in Int /\ v.max >= -1 /\ b \subseteq 0..v.max
  BY GoodIs
<1>2. ASSUME NEW i \in 0..v.max PROVE Has(v.data, i) <=> i \in b
  <2>1. i \in Nat /\ i \div WordBits \in 0..max_word(v.max)
    BY <1>1, BitInSize
  <2>2. i \div WordBits \in 0..LastWord(v.max)
    BY <1>1, <2>1, LastWordIs
  <2>3. v.data[i \div WordBits] = Word(b, i \div WordBits)
    BY <2>2, GoodIs
  <2> QED
    BY <2>1, <2>3, BitInWord DEF Has
<1> QED
  BY <1>1, <1>2 DEF Contents

LEMMA ZeroOfGood ==
  ASSUME NEW v, NEW b, Good(v, b)
  PROVE  zero(v) <=> b = {}
<1>1. v.max \in Int /\ v.max >= -1 /\ b \subseteq 0..v.max
  BY GoodIs
<1>2. \A i \in 0..max_word(v.max) : v.data[i] = Word(b, i)
  BY <1>1, GoodIs, LastWordIs
<1>3. ASSUME zero(v) PROVE b = {}
  <2>1. \A i \in 0..max_word(v.max) : Word(b, i) = Word({}, i)
    BY <1>2, <1>3, WordEmpty DEF zero
  <2> QED
    BY <1>1, <2>1, SameWords
<1>4. ASSUME b = {} PROVE zero(v)
  BY <1>2, <1>4, WordEmpty DEF zero
<1> QED
  BY <1>3, <1>4

\* The words == compares are those up to the last one.
LEMMA EqualOfGood ==
  ASSUME NEW v, NEW b, Good(v, b), NEW o, NEW d, Good(o, d)
  PROVE  Equal(v, o) <=> v.max = o.max /\ b = d
<1>1. /\ v.max \in Int /\ v.max >= -1 /\ b \subseteq 0..v.max
      /\ o.max \in Int /\ o.max >= -1 /\ d \subseteq 0..o.max
  BY GoodIs
<1> DEFINE words == IF v.max <= MAX_INLINE_BIT THEN MAX_INLINE_WORD ELSE max_word(v.max)
<1>2. words = LastWord(v.max)
  BY <1>1, MaxWord DEF LastWord, Larger, MAX_INLINE_WORD
<1>3. Equal(v, o) <=> v.max = o.max /\ \A i \in 0..words : v.data[i] = o.data[i]
  BY DEF Equal
<1> HIDE DEF words
<1>4. ASSUME v.max = o.max, \A i \in 0..words : v.data[i] = o.data[i] PROVE b = d
  <2>1. \A i \in 0..LastWord(v.max) : Word(b, i) = Word(d, i)
    BY <1>2, <1>4, GoodIs
  <2>2. \A i \in 0..max_word(v.max) : Word(b, i) = Word(d, i)
    BY <1>1, <2>1, LastWordIs
  <2> QED
    BY <1>1, <1>4, <2>2, SameWords
<1>5. ASSUME v.max = o.max, b = d PROVE \A i \in 0..words : v.data[i] = o.data[i]
  BY <1>2, <1>5, GoodIs
<1> QED
  BY <1>3, <1>4, <1>5

LEMMA IntersectionOfGood ==
  ASSUME NEW v, NEW b, Good(v, b), NEW o, NEW d, Good(o, d)
  PROVE  nonzero_intersection(v, o) <=> b \intersect d /= {}
<1>1. /\ v.max \in Int /\ v.max >= -1 /\ b \subseteq 0..v.max
      /\ o.max \in Int /\ o.max >= -1 /\ d \subseteq 0..o.max
  BY GoodIs
<1>2. max_word(v.max) \in Int /\ max_word(o.max) \in Int
  BY <1>1, MaxWord
<1> DEFINE nn == IF max_word(o.max) > max_word(v.max) THEN max_word(v.max) ELSE max_word(o.max)
<1>3. nonzero_intersection(v, o) <=> \E i \in 0..nn : v.data[i] \intersect o.data[i] /= {}
  BY DEF nonzero_intersection
<1>4. nn \in Int /\ nn <= max_word(v.max) /\ nn <= max_word(o.max)
      /\ (nn = max_word(v.max) \/ nn = max_word(o.max))
  BY <1>2
<1> HIDE DEF nn
<1>5. \A i \in 0..nn : v.data[i] = Word(b, i) /\ o.data[i] = Word(d, i)
  <2>1. ASSUME NEW i \in 0..nn PROVE i \in 0..LastWord(v.max) /\ i \in 0..LastWord(o.max)
    BY <1>1, <1>4, LastWordIs
  <2> QED
    BY <2>1, GoodIs
<1>6. ASSUME NEW i \in 0..nn, NEW c \in Word(b, i), c \in Word(d, i) PROVE b \intersect d /= {}
  BY <1>6 DEF Word
<1>7. ASSUME NEW j \in b, j \in d PROVE \E i \in 0..nn : Word(b, i) \intersect Word(d, i) /= {}
  <2>1. j \in Nat /\ j \in 0..v.max /\ j \in 0..o.max
    BY <1>1, <1>7
  <2>2. j \div WordBits \in 0..max_word(v.max) /\ j \div WordBits \in 0..max_word(o.max)
    BY <1>1, <2>1, BitInSize
  <2>3. j \div WordBits \in 0..nn
    BY <1>2, <1>4, <2>2
  <2>4. (j % WordBits) \in Word(b, j \div WordBits) /\ (j % WordBits) \in Word(d, j \div WordBits)
    BY <1>7, <2>1, BitInWord
  <2> QED
    BY <2>3, <2>4
<1> QED
  BY <1>3, <1>5, <1>6, <1>7

(***************************************************************************)
(* The operations                                                          *)
(***************************************************************************)

\* The same memory with other words in it.
LEMMA GoodAgain ==
  ASSUME NEW v, IsVector(v), Covers(v), NEW w, SameMemory(v, w), NEW b, b \subseteq 0..v.max,
         \A i \in 0..LastWord(v.max) : w.data[i] = Word(b, i)
  PROVE  Good(w, b)
BY SameMemoryCovers DEF SameMemory, Good, Holds

LEMMA WordNumber ==
  ASSUME NEW max \in Int, NEW i \in 0..LastWord(max)
  PROVE  /\ i \in Nat
         /\ i \in 0..max_word(max) <=> i <= max_word(max)
BY LastWordIs

\* The words that an operation on words 0 to max_word leaves alone are empty.
LEMMA UntouchedWord ==
  ASSUME NEW max \in Int, max >= -1, NEW b, b \subseteq 0..max,
         NEW i \in 0..LastWord(max), i \notin 0..max_word(max)
  PROVE  Word(b, i) = {}
<1>1. i \in Nat /\ i > max_word(max)
  BY WordNumber, LastWordIs
<1> QED
  BY <1>1, WordBeyond

LEMMA GoodMemory ==
  ASSUME NEW v, NEW b, Good(v, b)
  PROVE  IsVector(v) /\ Covers(v)
BY DEF Good

\* Every word of v has a word of o that counts, and o is read there.
Reaches(v, o) == max_word(v.max) <= Larger(max_word(o.max), MAX_INLINE_WORD)

LEMMA ReadGood ==
  ASSUME NEW v, NEW b, Good(v, b), NEW o, NEW d, Good(o, d), Reaches(v, o), NEW junk,
         NEW i \in 0..max_word(v.max)
  PROVE  /\ i \in DOMAIN v.data /\ v.data[i] = Word(b, i)
         /\ Read(o.data, i, junk) = Word(d, i)
<1>1. v.max \in Int /\ o.max \in Int
  BY GoodIs
<1>2. i \in 0..LastWord(v.max) /\ i \in 0..LastWord(o.max)
  BY <1>1, LastWordIs DEF Reaches, LastWord
<1> QED
  BY <1>2, GoodIs DEF Read

LEMMA AndGood ==
  ASSUME NEW v, NEW b, Good(v, b), NEW o, NEW d, Good(o, d), Reaches(v, o), NEW junk
  PROVE  Good(Combined(v, o, junk, "and"), b \intersect d)
<1> DEFINE w == Combined(v, o, junk, "and")
           e == b \intersect d
<1>1. IsVector(v) /\ Covers(v) /\ SameMemory(v, w) /\ v.max \in Int /\ v.max >= -1
      /\ b \subseteq 0..v.max /\ e \subseteq 0..v.max
  BY GoodMemory, GoodIs, CombinedMemory
<1>2. ASSUME NEW i \in 0..LastWord(v.max) PROVE w.data[i] = Word(e, i)
  <2>1. i \in DOMAIN v.data /\ v.data[i] = Word(b, i)
    BY GoodIs
  <2>2. CASE i \in 0..max_word(v.max)
    <3>1. w.data[i] = v.data[i] \intersect Read(o.data, i, junk)
      BY <1>1, <2>1, <2>2 DEF IsVector, Combined, Replaced
    <3>2. Read(o.data, i, junk) = Word(d, i)
      BY <2>2, ReadGood
    <3>3. Word(e, i) = Word(b, i) \intersect Word(d, i)
      BY DEF Word
    <3> QED
      BY <2>1, <3>1, <3>2, <3>3
  <2>3. CASE i \notin 0..max_word(v.max)
    <3>1. w.data[i] = v.data[i]
      BY <1>1, <2>1, <2>3 DEF IsVector, Combined, Replaced
    <3>2. Word(b, i) = {} /\ Word(e, i) = {}
      BY <1>1, <2>3, UntouchedWord
    <3> QED
      BY <2>1, <3>1, <3>2
  <2> QED
    BY <2>2, <2>3
<1> QED
  BY <1>1, <1>2, GoodAgain

LEMMA OrGood ==
  ASSUME NEW v, NEW b, Good(v, b), NEW o, NEW d, Good(o, d), Reaches(v, o), NEW junk,
         d \subseteq 0..v.max
  PROVE  Good(Combined(v, o, junk, "or"), b \union d)
<1> DEFINE w == Combined(v, o, junk, "or")
           e == b \union d
<1>1. IsVector(v) /\ Covers(v) /\ SameMemory(v, w) /\ v.max \in Int /\ v.max >= -1
      /\ b \subseteq 0..v.max /\ e \subseteq 0..v.max
  BY GoodMemory, GoodIs, CombinedMemory
<1>2. ASSUME NEW i \in 0..LastWord(v.max) PROVE w.data[i] = Word(e, i)
  <2>1. i \in DOMAIN v.data /\ v.data[i] = Word(b, i)
    BY GoodIs
  <2>2. CASE i \in 0..max_word(v.max)
    <3>1. w.data[i] = v.data[i] \union Read(o.data, i, junk)
      BY <1>1, <2>1, <2>2 DEF IsVector, Combined, Replaced
    <3>2. Read(o.data, i, junk) = Word(d, i)
      BY <2>2, ReadGood
    <3>3. Word(e, i) = Word(b, i) \union Word(d, i)
      BY DEF Word
    <3> QED
      BY <2>1, <3>1, <3>2, <3>3
  <2>3. CASE i \notin 0..max_word(v.max)
    <3>1. w.data[i] = v.data[i]
      BY <1>1, <2>1, <2>3 DEF IsVector, Combined, Replaced
    <3>2. Word(b, i) = {} /\ Word(e, i) = {}
      BY <1>1, <2>3, UntouchedWord
    <3> QED
      BY <2>1, <3>1, <3>2
  <2> QED
    BY <2>2, <2>3
<1> QED
  BY <1>1, <1>2, GoodAgain

LEMMA XorGood ==
  ASSUME NEW v, NEW b, Good(v, b), NEW o, NEW d, Good(o, d), Reaches(v, o), NEW junk,
         d \subseteq 0..v.max
  PROVE  Good(Combined(v, o, junk, "xor"), (b \ d) \union (d \ b))
<1> DEFINE w == Combined(v, o, junk, "xor")
           e == (b \ d) \union (d \ b)
<1>1. IsVector(v) /\ Covers(v) /\ SameMemory(v, w) /\ v.max \in Int /\ v.max >= -1
      /\ b \subseteq 0..v.max /\ e \subseteq 0..v.max
  BY GoodMemory, GoodIs, CombinedMemory
<1>2. ASSUME NEW i \in 0..LastWord(v.max) PROVE w.data[i] = Word(e, i)
  <2>1. i \in DOMAIN v.data /\ v.data[i] = Word(b, i)
    BY GoodIs
  <2>2. CASE i \in 0..max_word(v.max)
    <3>1. w.data[i] = (v.data[i] \ Read(o.data, i, junk)) \union (Read(o.data, i, junk) \ v.data[i])
      BY <1>1, <2>1, <2>2 DEF IsVector, Combined, Replaced
    <3>2. Read(o.data, i, junk) = Word(d, i)
      BY <2>2, ReadGood
    <3>3. Word(e, i) = (Word(b, i) \ Word(d, i)) \union (Word(d, i) \ Word(b, i))
      BY DEF Word
    <3> QED
      BY <2>1, <3>1, <3>2, <3>3
  <2>3. CASE i \notin 0..max_word(v.max)
    <3>1. w.data[i] = v.data[i]
      BY <1>1, <2>1, <2>3 DEF IsVector, Combined, Replaced
    <3>2. Word(b, i) = {} /\ Word(e, i) = {}
      BY <1>1, <2>3, UntouchedWord
    <3> QED
      BY <2>1, <3>1, <3>2
  <2> QED
    BY <2>2, <2>3
<1> QED
  BY <1>1, <1>2, GoodAgain

\* A resized object has the words it had, and empty ones after them.
LEMMA ResizedWords ==
  ASSUME NEW v, NEW b, Good(v, b), NEW n \in Nat, NEW junk, NEW i \in 0..LastWord(n - 1)
  PROVE  Resized(v, n, junk).data[i] = Word(b, i)
<1> DEFINE want == (n - 1) \div WordBits + 1
           have == Larger(max_word(v.max) + 1, MAX_INLINE_WORD + 1)
           data == Resized(v, n, junk).data
<1>1. v.max \in Int /\ v.max >= -1 /\ b \subseteq 0..v.max /\ n - 1 \in Int /\ n - 1 >= -1
  BY GoodIs
<1>2. max_word(v.max) \in Int /\ max_word(v.max) >= -1 /\ max_word(n - 1) \in Int
  BY <1>1, MaxWord
<1>3. have \in Int /\ have = LastWord(v.max) + 1 /\ LastWord(v.max) \in Nat
  BY <1>2 DEF Larger, MAX_INLINE_WORD, LastWord
<1>4. i \in Nat /\ i <= LastWord(n - 1)
  BY <1>1, WordNumber, LastWordIs
<1>5. ASSUME i < have PROVE i \in DOMAIN v.data /\ v.data[i] = Word(b, i)
  BY <1>3, <1>4, <1>5, GoodIs
<1>6. CASE n - 1 > MAX_INLINE_BIT
  <2>1. max_word(n - 1) = want - 1 /\ want \in Int /\ max_word(n - 1) > 1
    <3>1. MAX_INLINE_BIT \in Nat
      BY SizesAssumption DEF MAX_INLINE_BIT, MAX_INLINE_WORD
    <3>2. n - 1 >= 0 /\ max_word(n - 1) = (n - 1) \div WordBits /\ (n - 1) \div WordBits \in Nat
      BY <1>1, <1>6, <3>1, MaxWord
    <3>3. ~(max_word(n - 1) <= 1)
      BY <1>1, <1>6, <3>1, MaxWord
    <3> QED
      BY <1>2, <3>2, <3>3
  <2>2. LastWord(n - 1) = want - 1
    BY <1>2, <2>1 DEF LastWord, Larger, MAX_INLINE_WORD
  <2>3. data = resize_to_max(v.data, max_word(v.max) + 1, n - 1, junk)
    BY <1>6 DEF Resized
  <2>4. data = IF want <= have THEN v.data ELSE Copied(v.data, have, want, junk)
    BY <2>3 DEF resize_to_max
  <2> HIDE DEF want, have, data
  <2>5. CASE want <= have
    BY <1>3, <1>4, <1>5, <2>1, <2>2, <2>4, <2>5 DEF data
  <2>6. CASE ~(want <= have)
    <3>1. i \in 0..(want - 1)
      BY <1>4, <2>1, <2>2
    <3>2. data[i] = IF i < have THEN Read(v.data, i, junk) ELSE {}
      BY <2>4, <2>6, <3>1 DEF Copied
    <3>3. CASE i < have
      BY <1>5, <3>2, <3>3 DEF Read, data
    <3>4. CASE ~(i < have)
      <4>1. i > max_word(v.max)
        BY <1>1, <1>2, <1>3, <1>4, <3>4, LastWordIs
      <4>2. Word(b, i) = {}
        BY <1>1, <1>4, <4>1, WordBeyond
      <4> QED
        BY <3>2, <3>4, <4>2 DEF data
    <3> QED
      BY <3>3, <3>4
  <2> QED
    BY <2>5, <2>6
<1>7. CASE ~(n - 1 > MAX_INLINE_BIT)
  <2>1. data = v.data
    BY <1>7 DEF Resized
  <2>2. n - 1 <= MAX_INLINE_BIT
    BY <1>1, <1>7, SizesAssumption DEF MAX_INLINE_BIT, MAX_INLINE_WORD
  <2>3. max_word(n - 1) <= 1
    BY <1>1, <2>2, MaxWord
  <2>4. LastWord(n - 1) = 1
    BY <1>2, <2>3 DEF LastWord, Larger, MAX_INLINE_WORD
  <2>5. have >= 2
    BY <1>1, <1>3, LastWordIs
  <2> QED
    BY <1>3, <1>4, <1>5, <2>1, <2>4, <2>5
<1> QED
  BY <1>6, <1>7

\* The bits that stay are those of the words that stay, if none is left behind
\* beyond the end.
LEMMA KeptWord ==
  ASSUME NEW n \in Nat, NEW b, b \subseteq Nat,
         b \intersect n..((LastWord(n - 1) + 1) * WordBits - 1) = {},
         NEW i \in 0..LastWord(n - 1)
  PROVE  Word(b, i) = Word(b \intersect 0..(n - 1), i)
<1> DEFINE l == LastWord(n - 1)
<1>1. l \in Nat /\ i \in Nat /\ i <= l
  BY WordNumber, LastWordIs
<1> HIDE DEF l
<1>2. ASSUME NEW c \in WordBit, i * WordBits + c \in b PROVE i * WordBits + c \in 0..(n - 1)
  <2> DEFINE j == i * WordBits + c
  <2>1. c \in Nat /\ c < WordBits /\ i * WordBits \in Nat /\ l * WordBits \in Nat
    BY <1>1, WordSize DEF WordBit
  <2>2. i * WordBits <= l * WordBits
    BY <1>1, WordSize
  <2>3. (l + 1) * WordBits = l * WordBits + WordBits
    BY <1>1, WordSize
  <2>4. j \in Nat /\ j <= (l + 1) * WordBits - 1 /\ (l + 1) * WordBits - 1 \in Int
    BY <2>1, <2>2, <2>3, WordSize
  <2>5. j \notin n..((l + 1) * WordBits - 1)
    BY <1>2 DEF l
  <2> QED
    BY <2>4, <2>5
<1> QED
  BY <1>2 DEF Word

LEMMA ResizedGood ==
  ASSUME NEW v, NEW b, Good(v, b), NEW n \in Nat, NEW junk,
         b \intersect n..((LastWord(n - 1) + 1) * WordBits - 1) = {}
  PROVE  Good(Resized(v, n, junk), b \intersect 0..(n - 1))
<1> DEFINE w == Resized(v, n, junk)
<1>1. IsVector(w) /\ w.max = n - 1 /\ Covers(w)
  BY ResizedMemory, GoodMemory
<1>2. b \subseteq Nat
  BY GoodIs
<1>3. ASSUME NEW i \in 0..LastWord(w.max) PROVE w.data[i] = Word(b \intersect 0..(n - 1), i)
  <2>1. i \in 0..LastWord(n - 1)
    BY <1>1
  <2>2. w.data[i] = Word(b, i)
    BY <2>1, ResizedWords
  <2>3. Word(b, i) = Word(b \intersect 0..(n - 1), i)
    BY <1>2, <2>1, KeptWord
  <2> QED
    BY <2>2, <2>3
<1> QED
  BY <1>1, <1>3 DEF Good, Holds

\* A vector that grows has nothing beyond its new end.
LEMMA GrownGood ==
  ASSUME NEW v, NEW b, Good(v, b), NEW n \in Nat, n - 1 >= v.max, NEW junk
  PROVE  Good(Resized(v, n, junk), b)
<1> DEFINE w == Resized(v, n, junk)
<1>1. IsVector(w) /\ w.max = n - 1 /\ Covers(w)
  BY ResizedMemory, GoodMemory
<1>2. b \subseteq 0..(n - 1)
  BY GoodIs
<1>3. \A i \in 0..LastWord(w.max) : w.data[i] = Word(b, i)
  BY <1>1, ResizedWords
<1> QED
  BY <1>1, <1>2, <1>3 DEF Good, Holds

LEMMA ClearedGood ==
  ASSUME NEW v, NEW b, Good(v, b)
  PROVE  Good([v EXCEPT !.data = Replaced(v.data, 0, max_word(v.max), LAMBDA i : {})], {})
<1> DEFINE data == Replaced(v.data, 0, max_word(v.max), LAMBDA i : {})
           w == [v EXCEPT !.data = data]
<1>1. DOMAIN data = DOMAIN v.data
  BY DEF Replaced
<1>2. IsVector(v) /\ Covers(v) /\ v.max \in Int /\ v.max >= -1 /\ b \subseteq 0..v.max
  BY GoodMemory, GoodIs
<1>3. ASSUME NEW i \in 0..LastWord(v.max) PROVE data[i] = Word({}, i)
  <2>1. i \in DOMAIN v.data /\ v.data[i] = Word(b, i)
    BY GoodIs
  <2>2. data[i] = IF i \in 0..max_word(v.max) THEN {} ELSE v.data[i]
    BY <2>1 DEF Replaced
  <2>3. i \notin 0..max_word(v.max) => Word(b, i) = {}
    BY <1>2, UntouchedWord
  <2> QED
    BY <2>1, <2>2, <2>3, WordEmpty
<1> HIDE DEF data
<1>4. SameMemory(v, w) /\ w.data = data
  BY <1>1, <1>2, SameMemoryWith DEF IsVector
<1> HIDE DEF w
<1>5. Good(w, {})
  BY <1>2, <1>3, <1>4, GoodAgain
<1> QED
  BY <1>5 DEF w, data

LEMMA DefaultGood == Good(Default, {})
<1>1. Default.max = -1 /\ \A i \in 0..1 : Default.data[i] = {}
  BY DEF Default, Inline, MAX_INLINE_WORD
<1>2. LastWord(-1) = 1
  BY DEF LastWord, max_word, Larger, MAX_INLINE_WORD
<1> QED
  BY <1>1, <1>2, DefaultMemory, WordEmpty DEF Good, Holds

LEMMA WordOfBit ==
  ASSUME NEW i \in Nat, NEW k \in Nat
  PROVE  /\ k = i \div WordBits => Word({i}, k) = {i % WordBits}
         /\ k /= i \div WordBits => Word({i}, k) = {}
<1> DEFINE q == i \div WordBits
           r == i % WordBits
<1>1. q \in Nat /\ r \in WordBit /\ i = q * WordBits + r
  BY BitOfWord
<1> HIDE DEF q, r
<1>2. \A c \in WordBit : k * WordBits + c = i => k = q /\ c = r
  BY <1>1, OnePlace
<1>3. k = q => Word({i}, k) = {r}
  BY <1>1, <1>2 DEF Word
<1>4. k /= q => Word({i}, k) = {}
  BY <1>1, <1>2 DEF Word
<1> QED
  BY <1>3, <1>4 DEF q, r

LEMMA SetGood ==
  ASSUME NEW v, NEW b, Good(v, b), NEW i \in 0..v.max, NEW value \in BOOLEAN
  PROVE  Good(SetTo(v, i, value), IF value THEN b \union {i} ELSE b \ {i})
<1> DEFINE w == SetTo(v, i, value)
           e == IF value THEN b \union {i} ELSE b \ {i}
           q == i \div WordBits
           r == i % WordBits
<1>1. IsVector(v) /\ Covers(v) /\ v.max \in Int /\ v.max >= -1 /\ b \subseteq 0..v.max
  BY GoodMemory, GoodIs
<1>2. SameMemory(v, w) /\ e \subseteq 0..v.max /\ i \in Nat
  BY <1>1, SetMemory
<1>3. ASSUME NEW k \in 0..LastWord(v.max) PROVE w.data[k] = Word(e, k)
  <2>1. k \in Nat /\ k \in DOMAIN v.data /\ v.data[k] = Word(b, k)
    BY <1>1, GoodIs, WordNumber
  <2>2. w.data[k] = IF k = q THEN (IF value THEN v.data[k] \union {r} ELSE v.data[k] \ {r})
                             ELSE v.data[k]
    BY <1>1, <2>1 DEF SetTo, IsVector
  <2>3. Word(e, k) = IF value THEN Word(b, k) \union Word({i}, k) ELSE Word(b, k) \ Word({i}, k)
    BY DEF Word
  <2>4. CASE k = q
    <3>1. Word({i}, k) = {r}
      BY <1>2, <2>1, <2>4, WordOfBit
    <3> HIDE DEF q, r, w, e
    <3> QED
      BY <2>1, <2>2, <2>3, <2>4, <3>1
  <2>5. CASE k /= q
    <3>1. Word({i}, k) = {}
      BY <1>2, <2>1, <2>5, WordOfBit
    <3> HIDE DEF q, r, w, e
    <3> QED
      BY <2>1, <2>2, <2>3, <2>5, <3>1
  <2> QED
    BY <2>4, <2>5
<1> HIDE DEF w, e
<1>4. Good(w, e)
  BY <1>1, <1>2, <1>3, GoodAgain
<1> QED
  BY <1>4 DEF w, e

\* The words of a vector of ones.
LEMMA FullWord ==
  ASSUME NEW max \in Nat, NEW k \in Nat
  PROVE  /\ k < max_word(max) => Word(0..max, k) = WordBit
         /\ k = max_word(max) => Word(0..max, k) = WordBit \intersect 0..(max % WordBits)
         /\ k > max_word(max) => Word(0..max, k) = {}
<1> DEFINE q == max \div WordBits
           r == max % WordBits
<1>1. q \in Nat /\ r \in WordBit /\ max = q * WordBits + r /\ max_word(max) = q
  BY BitOfWord DEF max_word
<1> HIDE DEF q, r
<1>2. r \in Nat /\ q * WordBits \in Nat /\ k * WordBits \in Nat
      /\ \A c \in WordBit : c \in Nat
  BY <1>1, WordSize DEF WordBit
<1>3. ASSUME k < max_word(max) PROVE Word(0..max, k) = WordBit
  <2>1. \A c \in WordBit : k * WordBits + c \in 0..max
    BY <1>1, <1>2, <1>3, WordInSize
  <2> QED
    BY <2>1 DEF Word
<1>4. ASSUME k = max_word(max) PROVE Word(0..max, k) = WordBit \intersect 0..r
  <2>1. \A c \in WordBit : k * WordBits + c \in 0..max <=> c \in 0..r
    BY <1>1, <1>2, <1>4
  <2> QED
    BY <2>1 DEF Word
<1>5. ASSUME k > max_word(max) PROVE Word(0..max, k) = {}
  BY <1>5, WordBeyond
<1> QED
  BY <1>3, <1>4, <1>5 DEF r

LEMMA ClearedLast ==
  ASSUME NEW v, IsVector(v), NEW i \in DOMAIN v.data
  PROVE  /\ v.max < 0 /\ i = 0 => clear_last(v).data[i] = {}
         /\ v.max >= 0 /\ i = max_word(v.max) =>
              clear_last(v).data[i] = v.data[i] \intersect 0..(v.max % WordBits)
         /\ (v.max < 0 /\ i /= 0) \/ (v.max >= 0 /\ i /= max_word(v.max)) =>
              clear_last(v).data[i] = v.data[i]
<1> DEFINE last == IF v.max < 0 THEN 0 ELSE v.max \div WordBits
           kept == IF v.max < 0 THEN {} ELSE 0..(v.max % WordBits)
<1>1. v.max \in Int /\ v = [max |-> v.max, data |-> v.data] /\ last \in Int
  BY MaxWord DEF IsVector
<1>2. clear_last(v).data[i] = IF i \in last..last THEN v.data[i] \intersect kept ELSE v.data[i]
  BY <1>1 DEF clear_last, Replaced
<1>3. i \in last..last <=> i = last
  BY <1>1
<1>4. v.max >= 0 => last = max_word(v.max)
  BY <1>1 DEF max_word
<1> QED
  BY <1>1, <1>2, <1>3, <1>4

LEMMA NegatedGood ==
  ASSUME NEW v, NEW b, Good(v, b)
  PROVE  Good(Negated(v), 0..v.max \ b)
<1> DEFINE data == Replaced(v.data, 0, max_word(v.max), LAMBDA i : WordBit \ v.data[i])
           inverse == [v EXCEPT !.data = data]
           w == Negated(v)
           e == 0..v.max \ b
<1>1. IsVector(v) /\ Covers(v) /\ v.max \in Int /\ v.max >= -1 /\ b \subseteq 0..v.max
  BY GoodMemory, GoodIs
<1>2. SameMemory(v, w) /\ w = clear_last(inverse) /\ DOMAIN data = DOMAIN v.data
  BY <1>1, NegatedMemory DEF Negated, Replaced
<1>3. \A i \in DOMAIN v.data :
        data[i] = IF i \in 0..max_word(v.max) THEN WordBit \ v.data[i] ELSE v.data[i]
  BY DEF Replaced
<1> HIDE DEF data
<1>4. IsVector(inverse) /\ inverse.max = v.max /\ inverse.data = data
  BY <1>1, <1>2, SameMemoryWith DEF SameMemory, IsVector
<1> HIDE DEF inverse, w
<1>5. ASSUME NEW i \in 0..LastWord(v.max) PROVE w.data[i] = Word(e, i)
  <2>1. i \in Nat /\ i \in DOMAIN v.data /\ v.data[i] = Word(b, i)
    BY <1>1, GoodIs, WordNumber
  <2>2. /\ v.max < 0 /\ i = 0 => w.data[i] = {}
        /\ v.max >= 0 /\ i = max_word(v.max) => w.data[i] = data[i] \intersect 0..(v.max % WordBits)
        /\ (v.max < 0 /\ i /= 0) \/ (v.max >= 0 /\ i /= max_word(v.max)) => w.data[i] = data[i]
    BY <1>2, <1>4, <2>1, ClearedLast
  <2>3. Word(e, i) = Word(0..v.max, i) \ Word(b, i)
    BY DEF Word
  <2>4. CASE v.max < 0
    <3>1. max_word(v.max) = -1 /\ i \notin 0..max_word(v.max)
      BY <1>1, <2>4 DEF max_word
    <3>2. Word(b, i) = {} /\ Word(e, i) = {}
      BY <1>1, <3>1, UntouchedWord
    <3> QED
      BY <1>3, <2>1, <2>2, <2>4, <3>1, <3>2
  <2>5. CASE v.max >= 0 /\ i < max_word(v.max)
    <3>1. v.max \in Nat /\ i \in 0..max_word(v.max) /\ i /= max_word(v.max)
      BY <1>1, <2>1, <2>5, MaxWord
    <3>2. Word(0..v.max, i) = WordBit
      BY <2>1, <2>5, <3>1, FullWord
    <3>3. w.data[i] = data[i]
      BY <2>2, <3>1
    <3>4. data[i] = WordBit \ v.data[i]
      BY <1>3, <2>1, <3>1
    <3> QED
      BY <2>1, <2>3, <3>2, <3>3, <3>4
  <2>6. CASE v.max >= 0 /\ i = max_word(v.max)
    <3>1. v.max \in Nat /\ i \in 0..max_word(v.max)
      BY <1>1, <2>1, <2>6, MaxWord
    <3>2. Word(0..v.max, i) = WordBit \intersect 0..(v.max % WordBits)
      BY <2>1, <2>6, <3>1, FullWord
    <3>3. w.data[i] = data[i] \intersect 0..(v.max % WordBits)
      BY <2>2, <2>6, <3>1
    <3>4. data[i] = WordBit \ v.data[i]
      BY <1>3, <2>1, <3>1
    <3> QED
      BY <2>1, <2>3, <3>2, <3>3, <3>4
  <2>7. CASE v.max >= 0 /\ i > max_word(v.max)
    <3>1. i \notin 0..max_word(v.max) /\ i /= max_word(v.max)
      BY <1>1, <2>1, <2>7, MaxWord
    <3>2. Word(b, i) = {} /\ Word(e, i) = {}
      BY <1>1, <3>1, UntouchedWord
    <3> QED
      BY <1>1, <1>3, <2>1, <2>2, <2>7, <3>1, <3>2
  <2> QED
    BY <1>1, <2>1, <2>4, <2>5, <2>6, <2>7, MaxWord
<1> HIDE DEF e
<1>6. e \subseteq 0..v.max
  BY DEF e
<1>7. Good(w, e)
  BY <1>1, <1>2, <1>5, <1>6, GoodAgain
<1> QED
  BY <1>7 DEF w, e

\* assign fills the words up to the last one, or the first word and leaves an
\* empty one after it.
LEMMA FilledWords ==
  ASSUME NEW v, NEW b, Good(v, b), NEW n \in Nat, NEW junk, NEW ones,
         n > WordBits \/ b \intersect WordBits..MAX_INLINE_BIT = {},
         NEW i \in 0..LastWord(n - 1)
  PROVE  /\ i \in DOMAIN Resized(v, n, junk).data
         /\ (IF i \in 0..(IF n > WordBits THEN max_word(n - 1) ELSE 0)
             THEN ones ELSE Resized(v, n, junk).data[i])
              = (IF i <= Larger(max_word(n - 1), 0) THEN ones ELSE {})
<1> DEFINE copy == IF n > WordBits THEN max_word(n - 1) ELSE 0
           data == Resized(v, n, junk).data
           filled == IF i \in 0..copy THEN ones ELSE data[i]
<1>1. n - 1 \in Int /\ n - 1 >= -1 /\ max_word(n - 1) \in Int /\ max_word(n - 1) >= -1
  BY MaxWord
<1>2. i \in Nat /\ i <= LastWord(n - 1)
  BY <1>1, WordNumber, LastWordIs
<1>3. data[i] = Word(b, i) /\ i \in DOMAIN data
  <2>1. Covers(Resized(v, n, junk)) /\ Resized(v, n, junk).max = n - 1
    BY GoodMemory, ResizedMemory
  <2>2. i \in DOMAIN data
    BY <2>1 DEF Covers, LastWord
  <2> QED
    BY <2>2, ResizedWords
<1> HIDE DEF data
<1>4. n > 0 => /\ n - 1 \in Nat /\ (n - 1) % WordBits \in Nat /\ (n - 1) % WordBits < WordBits
               /\ max_word(n - 1) \in Nat
               /\ n - 1 = max_word(n - 1) * WordBits + ((n - 1) % WordBits)
  BY <1>1, BitOfWord, WordSize DEF max_word, WordBit
<1>5. CASE n > WordBits
  <2>1. max_word(n - 1) >= 1
    <3>1. SUFFICES ASSUME max_word(n - 1) = 0 PROVE FALSE
      BY <1>4, <1>5, WordSize
    <3>2. max_word(n - 1) * WordBits = 0
      BY <3>1, WordSize
    <3> QED
      BY <1>4, <1>5, <3>2, WordSize
  <2>2. LastWord(n - 1) = max_word(n - 1) /\ Larger(max_word(n - 1), 0) = max_word(n - 1)
        /\ copy = max_word(n - 1)
    BY <1>1, <1>5, <2>1 DEF LastWord, Larger, MAX_INLINE_WORD
  <2>3. i \in 0..copy /\ i <= Larger(max_word(n - 1), 0)
    BY <1>1, <1>2, <2>2
  <2>4. filled = IF i <= Larger(max_word(n - 1), 0) THEN ones ELSE {}
    BY <2>3
  <2> QED
    BY <1>3, <2>4 DEF data
<1>6. CASE ~(n > WordBits)
  <2>1. max_word(n - 1) <= 0
    <3>1. SUFFICES ASSUME n > 0, max_word(n - 1) >= 1 PROVE FALSE
      BY <1>1, <1>4 DEF max_word
    <3>2. max_word(n - 1) * WordBits >= 1 * WordBits
      BY <1>4, <3>1, WordSize
    <3> QED
      BY <1>4, <1>6, <3>1, <3>2, WordSize
  <2>2. LastWord(n - 1) = 1 /\ Larger(max_word(n - 1), 0) = 0 /\ copy = 0
    BY <1>1, <1>6, <2>1 DEF LastWord, Larger, MAX_INLINE_WORD
  <2>3. Word(b, 1) = {}
    <3>1. b \intersect WordBits..(2 * WordBits - 1) = {}
      BY <1>6 DEF MAX_INLINE_BIT, MAX_INLINE_WORD
    <3>2. \A c \in WordBit : 1 * WordBits + c \in WordBits..(2 * WordBits - 1)
      BY WordSize DEF WordBit
    <3> QED
      BY <3>1, <3>2 DEF Word
  <2>4. filled = IF i <= Larger(max_word(n - 1), 0) THEN ones ELSE {}
    <3>1. CASE i = 0
      BY <2>2, <3>1
    <3>2. CASE i = 1
      BY <1>3, <2>2, <2>3, <3>2
    <3> QED
      BY <1>2, <2>2, <3>1, <3>2
  <2> QED
    BY <1>3, <2>4 DEF data
<1> QED
  BY <1>5, <1>6

LEMMA AssignedGood ==
  ASSUME NEW v, NEW b, Good(v, b), NEW n \in Nat, NEW value \in BOOLEAN, NEW junk,
         n > WordBits \/ b \intersect WordBits..MAX_INLINE_BIT = {}
  PROVE  Good(Assigned(v, n, value, junk), IF value THEN 0..(n - 1) ELSE {})
<1> DEFINE resized == Resized(v, n, junk)
           copy == IF n > WordBits THEN max_word(n - 1) ELSE 0
           ones == IF value THEN WordBit ELSE {}
           data == Replaced(resized.data, 0, copy, LAMBDA i : ones)
           filled == [resized EXCEPT !.data = data]
           w == Assigned(v, n, value, junk)
           e == IF value THEN 0..(n - 1) ELSE {}
<1>1. n - 1 \in Int /\ n - 1 >= -1 /\ max_word(n - 1) \in Int
  BY MaxWord
<1>2. IsVector(resized) /\ resized.max = n - 1 /\ DOMAIN data = DOMAIN resized.data
  BY GoodMemory, ResizedMemory DEF Replaced
<1>3. w = IF value THEN clear_last(filled) ELSE filled
  BY <1>2 DEF Assigned
<1>4. \A i \in 0..LastWord(n - 1) : data[i] = IF i <= Larger(max_word(n - 1), 0) THEN ones ELSE {}
  <2>1. ASSUME NEW i \in 0..LastWord(n - 1)
        PROVE  data[i] = IF i <= Larger(max_word(n - 1), 0) THEN ones ELSE {}
    <3>1. i \in DOMAIN resized.data
      BY FilledWords
    <3>2. data[i] = IF i \in 0..copy THEN ones ELSE resized.data[i]
      BY <3>1 DEF Replaced
    <3> HIDE DEF ones
    <3>3. (IF i \in 0..copy THEN ones ELSE resized.data[i])
            = (IF i <= Larger(max_word(n - 1), 0) THEN ones ELSE {})
      BY FilledWords
    <3> HIDE DEF data, copy, resized
    <3> QED
      BY <3>2, <3>3
  <2> QED
    BY <2>1
<1>5. IsVector(w) /\ w.max = n - 1 /\ Covers(w)
  BY GoodMemory, AssignedMemory
<1> HIDE DEF resized, data
<1>6. SameMemory(resized, filled) /\ filled.data = data
  BY <1>2, SameMemoryWith DEF IsVector
<1> HIDE DEF filled, w
<1>7. IsVector(filled) /\ filled.max = n - 1
  BY <1>2, <1>6 DEF SameMemory
<1>8. ASSUME NEW i \in 0..LastWord(n - 1) PROVE w.data[i] = Word(e, i)
  <2>1. i \in Nat /\ data[i] = IF i <= Larger(max_word(n - 1), 0) THEN ones ELSE {}
    BY <1>1, <1>4, WordNumber
  <2>2. CASE ~value
    BY <1>3, <1>6, <2>1, <2>2, WordEmpty
  <2>3. CASE value /\ n = 0
    <3>1. max_word(n - 1) = -1 /\ LastWord(n - 1) = 1 /\ Larger(max_word(n - 1), 0) = 0
      BY <1>1, <2>3 DEF max_word, LastWord, Larger, MAX_INLINE_WORD
    <3>2. i \in DOMAIN filled.data
      BY <1>3, <1>5, <1>7, <2>3, ClearedMemory DEF Covers, SameMemory, LastWord
    <3>3. (i = 0 => w.data[i] = {}) /\ (i /= 0 => w.data[i] = data[i])
      <4>1. w = clear_last(filled) /\ filled.max < 0
        BY <1>1, <1>3, <1>7, <2>3
      <4> QED
        BY <1>6, <1>7, <3>2, <4>1, ClearedLast
    <3>4. w.data[i] = {}
      BY <2>1, <3>1, <3>3
    <3>5. 0..(n - 1) = {}
      BY <2>3
    <3> QED
      BY <2>3, <3>4, <3>5, WordEmpty
  <2>4. CASE value /\ n > 0
    <3>1. n - 1 \in Nat /\ max_word(n - 1) \in Nat /\ Larger(max_word(n - 1), 0) = max_word(n - 1)
      BY <1>1, <2>4, MaxWord DEF Larger
    <3>2. i \in DOMAIN filled.data
      BY <1>3, <1>5, <1>7, <2>4, ClearedMemory DEF Covers, SameMemory, LastWord
    <3>3. /\ i = max_word(n - 1) => w.data[i] = data[i] \intersect 0..((n - 1) % WordBits)
          /\ i /= max_word(n - 1) => w.data[i] = data[i]
      <4>1. w = clear_last(filled) /\ filled.max >= 0 /\ filled.max = n - 1
        BY <1>1, <1>3, <1>7, <2>4
      <4> QED
        BY <1>6, <1>7, <3>2, <4>1, ClearedLast
    <3>4. data[i] = IF i <= max_word(n - 1) THEN WordBit ELSE {}
      BY <2>1, <2>4, <3>1
    <3>5. e = 0..(n - 1)
      BY <2>4
    <3> HIDE DEF e
    <3>6. CASE i < max_word(n - 1)
      <4>1. Word(0..(n - 1), i) = WordBit
        BY <2>1, <3>1, <3>6, FullWord
      <4> QED
        BY <2>1, <3>1, <3>3, <3>4, <3>5, <3>6, <4>1
    <3>7. CASE i = max_word(n - 1)
      <4>1. Word(0..(n - 1), i) = WordBit \intersect 0..((n - 1) % WordBits)
        BY <2>1, <3>1, <3>7, FullWord
      <4>2. data[i] = WordBit
        BY <2>1, <3>1, <3>4, <3>7
      <4>3. w.data[i] = data[i] \intersect 0..((n - 1) % WordBits)
        BY <3>3, <3>7
      <4> QED
        BY <3>5, <4>1, <4>2, <4>3
    <3>8. CASE i > max_word(n - 1)
      <4>1. Word(0..(n - 1), i) = {}
        BY <2>1, <3>1, <3>8, FullWord
      <4>2. ~(i <= max_word(n - 1)) /\ i /= max_word(n - 1)
        BY <2>1, <3>1, <3>8
      <4> QED
        BY <3>3, <3>4, <3>5, <4>1, <4>2
    <3> QED
      BY <2>1, <3>1, <3>6, <3>7, <3>8
  <2> QED
    BY <2>2, <2>3, <2>4
<1>9. e \subseteq 0..w.max
  BY <1>5
<1> HIDE DEF e
<1>10. Good(w, e)
  BY <1>5, <1>8, <1>9 DEF Good, Holds
<1> QED
  BY <1>10 DEF w, e

LEMMA CopiedGood ==
  ASSUME NEW o, NEW d, Good(o, d), NEW junk
  PROVE  Good(CopyOf(o, junk), d)
<1> DEFINE words == IF o.max > MAX_INLINE_BIT THEN max_word(o.max) + 1 ELSE MAX_INLINE_WORD + 1
           c == CopyOf(o, junk)
<1>1. IsVector(c) /\ c.max = o.max /\ Covers(c) /\ c.data = Copied(o.data, words, words, junk)
  BY GoodMemory, CopiedMemory DEF CopyOf
<1>2. o.max \in Int /\ max_word(o.max) \in Int /\ MAX_INLINE_BIT \in Int /\ d \subseteq 0..o.max
  BY GoodIs, MaxWord, SizesAssumption DEF MAX_INLINE_BIT, MAX_INLINE_WORD
<1>3. words = LastWord(o.max) + 1 /\ LastWord(o.max) \in Nat
  BY <1>2, MaxWord DEF LastWord, Larger, MAX_INLINE_WORD
<1> HIDE DEF words, c
<1>4. ASSUME NEW i \in 0..LastWord(o.max) PROVE c.data[i] = Word(d, i)
  <2>1. i \in DOMAIN o.data /\ o.data[i] = Word(d, i) /\ i \in 0..(words - 1) /\ i < words
    BY <1>3, GoodIs
  <2> QED
    BY <1>1, <2>1 DEF Copied, Read
<1>5. Good(c, d)
  BY <1>1, <1>2, <1>4 DEF Good, Holds
<1> QED
  BY <1>5 DEF c

LEMMA AssignedFromGood ==
  ASSUME NEW v, IsVector(v), NEW o, NEW d, Good(o, d), NEW junk,
         1 \in DOMAIN v.data \/ o.max > MAX_INLINE_BIT
  PROVE  Good(AssignedFrom(v, o, junk), d)
<1> DEFINE w == AssignedFrom(v, o, junk)
           k == max_word(o.max) + 1
<1>1. o.max \in Int /\ o.max >= -1 /\ max_word(o.max) \in Int /\ d \subseteq 0..o.max
  BY GoodIs, MaxWord
<1>2. IsVector(w) /\ Covers(w) /\ w.max = o.max
  <2>1. w.max = o.max
    BY DEF AssignedFrom
  <2>2. IsVector(o)
    BY GoodMemory
  <2> QED
    BY <2>1, <2>2, AssignedFromMemory
<1>3. ASSUME NEW i \in 0..LastWord(o.max) PROVE w.data[i] = Word(d, i)
  <2>1. i \in DOMAIN o.data /\ o.data[i] = Word(d, i)
    BY GoodIs
  <2>2. Read(o.data, i, junk) = Word(d, i)
    BY <2>1 DEF Read
  <2>3. i \in DOMAIN w.data
    BY <1>2 DEF Covers, LastWord
  <2>4. CASE max_word(o.max) <= MAX_INLINE_WORD
    <3>1. i \in 0..MAX_INLINE_WORD
      BY <1>1, <2>4 DEF LastWord, Larger, MAX_INLINE_WORD
    <3>2. w.data = Replaced(v.data, 0, MAX_INLINE_WORD, LAMBDA l : Read(o.data, l, junk))
      BY <2>4 DEF AssignedFrom
    <3>3. w.data[i] = Read(o.data, i, junk)
      BY <2>3, <3>1, <3>2 DEF Replaced
    <3> QED
      BY <2>2, <3>3
  <2>5. CASE ~(max_word(o.max) <= MAX_INLINE_WORD)
    <3>1. i \in 0..(k - 1) /\ i < k
      BY <1>1, <2>5 DEF LastWord, Larger, MAX_INLINE_WORD
    <3>2. w.data = Copied(o.data, k, k, junk)
      BY <2>5 DEF AssignedFrom
    <3> HIDE DEF w, k
    <3>3. w.data[i] = Read(o.data, i, junk)
      BY <3>1, <3>2 DEF Copied
    <3> QED
      BY <2>2, <3>3
  <2> QED
    BY <2>4, <2>5
<1> HIDE DEF w
<1>4. Good(w, d)
  BY <1>1, <1>2, <1>3 DEF Good, Holds
<1> QED
  BY <1>4 DEF w

\* A string of which enough is cleared: all that lies beyond its end in the words
\* anyone looks at.
Cleared(n) == n > 1 /\ (LastWord(n - 1) + 1) * WordBits <= ClearedBits[n]

LEMMA StringGood ==
  ASSUME NEW n \in Sizes, Cleared(n), NEW ones \in SUBSET (0..(n - 1)), NEW junk
  PROVE  Good(FromString(n, ones, junk), ones)
<1> DEFINE w == FromString(n, ones, junk)
           l == LastWord(n - 1)
<1>1. n \in Nat /\ n > 1 /\ n - 1 \in Int /\ ClearedBits[n] \in Nat
  BY SizesAssumption DEF Sizes, Cleared
<1>2. IsVector(w) /\ Covers(w) /\ w.max = n - 1 /\ DOMAIN w.data = 0..(n - 1)
  <2>1. w.max = n - 1 /\ DOMAIN w.data = 0..(n - 1)
    BY DEF FromString
  <2>2. IsVector(w) /\ Covers(w)
    BY <1>1, StringMemory
  <2> QED
    BY <2>1, <2>2
<1>3. ASSUME NEW i \in 0..l PROVE w.data[i] = Word(ones, i)
  <2>1. i \in 0..(n - 1)
    BY <1>2, <1>3 DEF Covers, LastWord
  <2>2. w.data[i] = {b \in WordBit : LET j == i * WordBits + b
                                     IN \/ j \in ones
                                        \/ j \notin 0..(n - 1) /\ j >= ClearedBits[n] /\ b \in junk}
    BY <2>1 DEF FromString
  <2>3. l \in Nat /\ i \in Nat /\ i <= l
    BY <1>1, WordNumber, LastWordIs
  <2>4. (l + 1) * WordBits <= ClearedBits[n]
    BY DEF Cleared
  <2> HIDE DEF l, w
  <2>5. ASSUME NEW b \in WordBit PROVE ~(i * WordBits + b >= ClearedBits[n])
    <3>1. i * WordBits <= l * WordBits /\ i * WordBits \in Nat /\ l * WordBits \in Nat
      BY <2>3, WordSize
    <3>2. (l + 1) * WordBits = l * WordBits + WordBits
      BY <2>3, WordSize
    <3>3. b \in Nat /\ b < WordBits
      BY WordSize DEF WordBit
    <3> QED
      BY <1>1, <2>4, <3>1, <3>2, <3>3, WordSize
  <2> QED
    BY <2>2, <2>5 DEF Word
<1> HIDE DEF w
<1>4. Good(w, ones)
  BY <1>2, <1>3 DEF Good, Holds
<1> QED
  BY <1>4 DEF w

(***************************************************************************)
(* offset_or                                                               *)
(***************************************************************************)

Moved(d, offset) == {j + offset : j \in d}

\* Word i of the moved bits is made of two words.
LEMMA MovedWord ==
  ASSUME NEW d \in SUBSET Nat, NEW offset \in Nat, NEW i \in Nat, NEW c \in WordBit
  PROVE  LET first == offset \div WordBits
             shift == offset % WordBits
         IN c \in Word(Moved(d, offset), i) <=>
              \/ i - first >= 0 /\ c \in ShiftedUp(Word(d, i - first), shift)
              \/ i - first - 1 >= 0 /\ c \in Carried(Word(d, i - first - 1), shift)
<1> DEFINE first == offset \div WordBits
           shift == offset % WordBits
<1>1. first \in Nat /\ shift \in WordBit /\ offset = first * WordBits + shift
  BY BitOfWord
<1> HIDE DEF first, shift
<1>2. c \in Nat /\ c < WordBits /\ shift \in Nat /\ shift < WordBits
      /\ first * WordBits \in Nat /\ i * WordBits \in Nat
  BY <1>1, WordSize DEF WordBit
<1>3. ASSUME i - first >= 0, NEW a \in Word(d, i - first), c = a + shift
      PROVE  c \in Word(Moved(d, offset), i)
  <2>1. a \in WordBit /\ (i - first) * WordBits + a \in d
    BY DEF Word
  <2>2. (i - first) * WordBits = i * WordBits - first * WordBits
    BY <1>1, WordSize
  <2>3. ((i - first) * WordBits + a) + offset = i * WordBits + c
    BY <1>1, <1>2, <1>3, <2>1, <2>2 DEF WordBit
  <2> QED
    BY <2>1, <2>3 DEF Moved, Word
<1>4. ASSUME i - first - 1 >= 0, NEW a \in Word(d, i - first - 1), c = a + shift - WordBits
      PROVE  c \in Word(Moved(d, offset), i)
  <2>1. a \in WordBit /\ (i - first - 1) * WordBits + a \in d
    BY DEF Word
  <2>2. (i - first - 1) * WordBits = i * WordBits - first * WordBits - WordBits
    BY <1>1, WordSize
  <2>3. ((i - first - 1) * WordBits + a) + offset = i * WordBits + c
    BY <1>1, <1>2, <1>4, <2>1, <2>2, WordSize DEF WordBit
  <2> QED
    BY <2>1, <2>3 DEF Moved, Word
<1>5. ASSUME c \in Word(Moved(d, offset), i)
      PROVE  \/ i - first >= 0 /\ \E a \in Word(d, i - first) : c = a + shift
             \/ i - first - 1 >= 0 /\ \E a \in Word(d, i - first - 1) :
                                         a + shift >= WordBits /\ c = a + shift - WordBits
  <2>1. PICK j \in d : i * WordBits + c = j + offset
    BY <1>5 DEF Word, Moved
  <2> DEFINE q == j \div WordBits
             r == j % WordBits
  <2>2. q \in Nat /\ r \in WordBit /\ j = q * WordBits + r
    BY BitOfWord
  <2> HIDE DEF q, r
  <2>3. r \in Nat /\ r < WordBits /\ q * WordBits \in Nat
    BY <2>2, WordSize DEF WordBit
  <2>4. CASE r + shift < WordBits
    <3>1. (q + first) * WordBits = q * WordBits + first * WordBits
      BY <1>1, <2>2, WordSize
    <3>2. i * WordBits + c = (q + first) * WordBits + (r + shift)
      BY <1>1, <1>2, <2>1, <2>2, <2>3, <3>1
    <3>3. r + shift \in WordBit /\ q + first \in Int
      BY <1>1, <1>2, <2>2, <2>3, <2>4, WordSize DEF WordBit
    <3>4. i = q + first /\ c = r + shift
      BY <3>2, <3>3, OnePlace
    <3>5. i - first = q
      BY <1>1, <2>2, <3>4
    <3>6. r \in Word(d, q)
      BY <2>1, <2>2 DEF Word
    <3> QED
      BY <2>2, <3>4, <3>5, <3>6
  <2>5. CASE r + shift >= WordBits
    <3>1. (q + first + 1) * WordBits = q * WordBits + first * WordBits + WordBits
      BY <1>1, <2>2, WordSize
    <3>2. i * WordBits + c = (q + first + 1) * WordBits + (r + shift - WordBits)
      BY <1>1, <1>2, <2>1, <2>2, <2>3, <3>1, WordSize
    <3>3. r + shift - WordBits \in WordBit /\ q + first + 1 \in Int
      BY <1>1, <1>2, <2>2, <2>3, <2>5, WordSize DEF WordBit
    <3>4. i = q + first + 1 /\ c = r + shift - WordBits
      BY <3>2, <3>3, OnePlace
    <3>5. i - first - 1 = q
      BY <1>1, <2>2, <3>4
    <3>6. r \in Word(d, q)
      BY <2>1, <2>2 DEF Word
    <3> QED
      BY <2>2, <2>5, <3>4, <3>5, <3>6
  <2> QED
    BY <1>2, <2>3, <2>4, <2>5, WordSize
<1>6. \A e : c \in ShiftedUp(e, shift) <=> \E a \in e : c = a + shift
  BY DEF ShiftedUp
<1>7. \A e : c \in Carried(e, shift) <=> \E a \in e : a + shift >= WordBits /\ c = a + shift - WordBits
  BY DEF Carried
<1> QED
  BY <1>3, <1>4, <1>5, <1>6, <1>7 DEF first, shift

LEMMA OffsetGood ==
  ASSUME NEW v, NEW b, Good(v, b), NEW o, NEW d, Good(o, d), NEW offset \in Nat, NEW junk,
         Moved(d, offset) \subseteq 0..v.max
  PROVE  Good(OffsetOr(v, o, offset, junk), b \union Moved(d, offset))
<1> DEFINE shift == offset % WordBits
           first == offset \div WordBits
           last == Larger(max_word(o.max), 0)
           from(i) == (IF i - first \in 0..last
                       THEN ShiftedUp(Read(o.data, i - first, junk), shift) ELSE {})
                      \union
                      (IF i - first - 1 \in 0..last
                       THEN Carried(Read(o.data, i - first - 1, junk), shift) ELSE {})
           w == OffsetOr(v, o, offset, junk)
           moved == Moved(d, offset)
           e == b \union moved
<1>1. IsVector(v) /\ Covers(v) /\ v.max \in Int /\ v.max >= -1 /\ b \subseteq 0..v.max
      /\ SameMemory(v, w)
  BY GoodMemory, GoodIs, OffsetMemory
<1>2. o.max \in Int /\ o.max >= -1 /\ d \subseteq 0..o.max /\ d \in SUBSET Nat /\ first \in Nat
  BY GoodIs, BitOfWord
<1>3. \A i \in DOMAIN v.data :
        w.data[i] = IF i \in first..max_word(v.max) THEN v.data[i] \union from(i) ELSE v.data[i]
  BY <1>1 DEF OffsetOr, Replaced, IsVector
<1>4. last \in Nat /\ last <= LastWord(o.max) /\ last >= max_word(o.max)
  BY <1>2, MaxWord DEF Larger, LastWord, MAX_INLINE_WORD
<1>5. ASSUME NEW k \in Int
      PROVE  /\ k \in 0..last => Read(o.data, k, junk) = Word(d, k)
             /\ k \notin 0..last /\ k >= 0 => Word(d, k) = {}
  <2>1. ASSUME k \in 0..last PROVE Read(o.data, k, junk) = Word(d, k)
    <3>1. k \in 0..LastWord(o.max)
      BY <1>2, <1>4, <2>1, LastWordIs
    <3> QED
      BY <3>1, GoodIs DEF Read
  <2>2. ASSUME k \notin 0..last, k >= 0 PROVE Word(d, k) = {}
    <3>1. k \in Nat /\ max_word(o.max) \in Int
      BY <1>2, <2>2, MaxWord
    <3>2. k > max_word(o.max)
      BY <1>4, <2>2, <3>1
    <3> QED
      BY <1>2, <3>1, <3>2, WordBeyond
  <2> QED
    BY <2>1, <2>2
<1>6. ShiftedUp({}, shift) = {} /\ Carried({}, shift) = {}
  BY DEF ShiftedUp, Carried
<1>7. \A i \in Nat, c \in WordBit :
        c \in Word(moved, i) <=>
          \/ i - first >= 0 /\ c \in ShiftedUp(Word(d, i - first), shift)
          \/ i - first - 1 >= 0 /\ c \in Carried(Word(d, i - first - 1), shift)
  BY <1>2, MovedWord
<1> HIDE DEF first, shift, last, moved, w
<1>8. ASSUME NEW i \in Nat, i >= first
      PROVE  \A c \in WordBit : c \in from(i) <=> c \in Word(moved, i)
  <2>1. i - first \in Int /\ i - first - 1 \in Int /\ i - first >= 0
    BY <1>2, <1>8
  <2>2. (IF i - first \in 0..last THEN ShiftedUp(Read(o.data, i - first, junk), shift) ELSE {})
          = ShiftedUp(Word(d, i - first), shift)
    BY <1>5, <1>6, <2>1
  <2>3. (IF i - first - 1 \in 0..last THEN Carried(Read(o.data, i - first - 1, junk), shift) ELSE {})
          = IF i - first - 1 >= 0 THEN Carried(Word(d, i - first - 1), shift) ELSE {}
    BY <1>4, <1>5, <1>6, <2>1
  <2> QED
    BY <1>7, <2>1, <2>2, <2>3
<1>9. ASSUME NEW i \in 0..LastWord(v.max) PROVE w.data[i] = Word(e, i)
  <2>1. i \in Nat /\ i \in DOMAIN v.data /\ v.data[i] = Word(b, i)
    BY <1>1, GoodIs, WordNumber
  <2>2. Word(e, i) = Word(b, i) \union Word(moved, i)
    BY DEF Word
  <2>3. CASE i \in first..max_word(v.max)
    <3>1. w.data[i] = Word(b, i) \union from(i)
      BY <1>3, <2>1, <2>3
    <3>2. i >= first
      BY <1>2, <2>3
    <3>3. from(i) \subseteq WordBit
      <4>1. \A x : ShiftedUp(x, shift) \subseteq WordBit
        BY DEF ShiftedUp
      <4>2. \A k : Carried(Word(d, k), shift) \subseteq WordBit
        <5>1. shift \in WordBit
          BY BitOfWord DEF shift
        <5> QED
          BY <5>1, WordSize DEF Carried, Word, WordBit
      <4>3. i - first - 1 \in 0..last =>
              Read(o.data, i - first - 1, junk) = Word(d, i - first - 1)
        BY <1>2, <1>5, <2>1
      <4> QED
        BY <4>1, <4>2, <4>3
    <3>4. Word(moved, i) \subseteq WordBit
      BY DEF Word
    <3> HIDE DEF from
    <3>5. from(i) = Word(moved, i)
      BY <1>8, <2>1, <3>2, <3>3, <3>4
    <3> QED
      BY <2>2, <3>1, <3>5
  <2>4. CASE i \notin first..max_word(v.max)
    <3>1. w.data[i] = Word(b, i)
      BY <1>3, <2>1, <2>4
    <3>2. CASE i < first
      <4>1. \A c \in WordBit : c \notin Word(moved, i)
        BY <1>2, <1>7, <2>1, <3>2
      <4>2. Word(moved, i) = {}
        BY <4>1 DEF Word
      <4> QED
        BY <2>2, <3>1, <4>2
    <3>3. CASE ~(i < first)
      <4>1. i \notin 0..max_word(v.max)
        BY <1>1, <1>2, <2>1, <2>4, <3>3, MaxWord
      <4>2. Word(moved, i) = {}
        BY <1>1, <4>1, UntouchedWord DEF moved
      <4> QED
        BY <2>2, <3>1, <4>2
    <3> QED
      BY <3>2, <3>3
  <2> QED
    BY <2>3, <2>4
<1>10. e \subseteq 0..v.max
  BY <1>1 DEF moved
<1> HIDE DEF e
<1>11. Good(w, e)
  BY <1>1, <1>9, <1>10, GoodAgain
<1> QED
  BY <1>11 DEF w, e, moved

(***************************************************************************)
(* The steps                                                               *)
(***************************************************************************)

LEMMA SoundGood ==
  ASSUME CInv, NEW s \in sound
  PROVE  Good(vec[s], bits[s])
<1>1. s = "x" \/ s = "y"
  BY DEF CInv, IInv, Shape
<1>2. IsVector(vec[s])
  BY <1>1 DEF CInv, IInv, Shape
<1>3. Covers(vec[s])
  BY SoundCovers DEF CInv, IInv
<1> QED
  BY <1>2, <1>3 DEF CInv, WordsAgree, Good

\* x becomes another vector, which holds its bits if x is sound from then on.
LEMMA BecomesGood ==
  ASSUME CInv, NEW v, NEW b, NEW careful, Becomes(v, b, careful), careful => Good(v, b)
  PROVE  Contained' /\ WordsAgree'
<1>1. /\ vec' = [vec EXCEPT !.x = v] /\ bits' = [bits EXCEPT !.x = b]
      /\ sound' = IF careful THEN sound \union {"x"} ELSE sound \ {"x"}
  BY DEF Becomes
<1>2. vec'.x = v /\ vec'.y = vec.y /\ bits'.x = b /\ bits'.y = bits.y
      /\ bits' = [x |-> b, y |-> bits.y]
  BY <1>1 DEF CInv, IInv, Shape, Contained
<1>3. ASSUME NEW s \in sound' PROVE Holds(vec'[s], bits'[s])
  <2>1. CASE s = "x"
    BY <1>1, <1>2, <2>1 DEF Good
  <2>2. CASE s /= "x"
    <3>1. s = "y" /\ s \in sound
      BY <1>1, <2>2 DEF CInv, IInv, Shape
    <3> QED
      BY <1>2, <3>1 DEF CInv, WordsAgree
  <2> QED
    BY <2>1, <2>2
<1> QED
  BY <1>2, <1>3 DEF Contained, WordsAgree, Holds, Word

LEMMA OperatedGood ==
  ASSUME CInv, NEW v, NEW b, NEW careful, Operated(v, b, careful),
         careful /\ Good(vec.x, bits.x) => Good(v, b)
  PROVE  Contained' /\ WordsAgree'
<1>1. "x" \in sound => Good(vec.x, bits.x)
  BY SoundGood
<1>2. Becomes(v, b, careful /\ "x" \in sound)
  BY DEF Operated
<1> QED
  BY <1>1, <1>2, BecomesGood

LEMMA ContentConstructSize ==
  ASSUME CInv, NEW n \in Sizes, NEW bit \in BOOLEAN, ConstructSize(n, bit)
  PROVE  Contained' /\ WordsAgree'
<1> DEFINE new == [max |-> n - 1,
                   data |-> IF n - 1 > MAX_INLINE_BIT
                            THEN resize_to_max(Inline({}), 0, n - 1, {}) ELSE Inline({})]
           w == IF bit THEN Assigned(new, n, bit, {}) ELSE new
           b == IF bit THEN 0..(n - 1) ELSE {}
<1>1. n \in Nat
  BY SizesAssumption DEF Sizes
<1>2. new = Resized(Default, n, {}) /\ Default.max = -1
  BY DEF Resized, Default, max_word
<1>3. Good(new, {})
  BY <1>1, <1>2, DefaultGood, GrownGood
<1>4. Becomes(w, b, TRUE)
  BY DEF ConstructSize
<1> HIDE DEF new
<1>5. bit => Good(Assigned(new, n, bit, {}), 0..(n - 1))
  BY <1>1, <1>3, AssignedGood
<1>6. Good(w, b)
  BY <1>3, <1>5
<1> HIDE DEF w, b
<1> QED
  BY <1>4, <1>6, BecomesGood

\* What the string constructors clear reaches to the end of the last word that
\* counts, as soon as it reaches beyond the inline words.
StringsCleared == \A n \in Sizes : ClearedBits[n] > MAX_INLINE_BIT => Cleared(n)

LEMMA ContentConstructString ==
  ASSUME CInv, StringsCleared, NEW n \in 1..MaxString, NEW ones \in SUBSET (0..(n - 1)),
         ConstructString(n, ones)
  PROVE  Contained' /\ WordsAgree'
<1>1. n \in Sizes
  BY SizesAssumption DEF Sizes
<1>2. PICK junk \in Words :
        Becomes(FromString(n, ones, junk), ones, ClearedBits[n] > MAX_INLINE_BIT)
  BY DEF ConstructString
<1>3. ClearedBits[n] > MAX_INLINE_BIT => Good(FromString(n, ones, junk), ones)
  BY <1>1, StringGood DEF StringsCleared
<1> QED
  BY <1>2, <1>3, BecomesGood

LEMMA ContentConstructCopy ==
  ASSUME CInv, ConstructCopy
  PROVE  Contained' /\ WordsAgree'
<1>1. PICK junk : Becomes(CopyOf(vec.y, junk), bits.y, "y" \in sound)
  BY DEF ConstructCopy
<1>2. "y" \in sound => Good(CopyOf(vec.y, junk), bits.y)
  BY SoundGood, CopiedGood
<1> QED
  BY <1>1, <1>2, BecomesGood

LEMMA ContentDestroy ==
  ASSUME CInv, Destroy
  PROVE  Contained' /\ WordsAgree'
BY DefaultGood, BecomesGood DEF Destroy

LEMMA ContentClear ==
  ASSUME CInv, Clear
  PROVE  Contained' /\ WordsAgree'
<1> DEFINE w == [vec.x EXCEPT !.data = Replaced(vec.x.data, 0, max_word(vec.x.max), LAMBDA i : {})]
<1>1. Operated(w, {}, TRUE)
  BY DEF Clear
<1>2. Good(vec.x, bits.x) => Good(w, {})
  BY ClearedGood
<1> HIDE DEF w
<1> QED
  BY <1>1, <1>2, OperatedGood

\* The last bit that a smaller vector's last word, or its second one, holds.
LEMMA ResizeBound ==
  ASSUME NEW n \in Nat
  PROVE  Larger((n - 1) \div WordBits, MAX_INLINE_WORD) = LastWord(n - 1)
<1>1. CASE n > 0
  BY <1>1 DEF LastWord, max_word
<1>2. CASE n = 0
  <2> DEFINE q == (-1) \div WordBits
             r == (-1) % WordBits
  <2>1. q \in Int /\ r \in 0..(WordBits - 1) /\ -1 = WordBits * q + r
    BY WordSize
  <2> HIDE DEF q, r
  <2>2. ~(q >= 0)
    <3>1. ASSUME q >= 0 PROVE WordBits * q >= 0
      BY <2>1, <3>1, WordSize
    <3> QED
      BY <2>1, <3>1, WordSize
  <2>3. n - 1 = -1 /\ Larger(q, 1) = 1
    BY <1>2, <2>1, <2>2 DEF Larger
  <2> QED
    BY <2>3 DEF LastWord, max_word, Larger, MAX_INLINE_WORD, q
<1> QED
  BY <1>1, <1>2

LEMMA ContentResize ==
  ASSUME CInv, NEW n \in Sizes, Resize(n)
  PROVE  Contained' /\ WordsAgree'
<1> DEFINE last == (Larger((n - 1) \div WordBits, MAX_INLINE_WORD) + 1) * WordBits - 1
           careful == bits.x \intersect n..last = {}
           b == bits.x \intersect 0..(n - 1)
<1>1. PICK junk : Operated(Resized(vec.x, n, junk), b, careful)
  BY DEF Resize
<1>2. n \in Nat
  BY SizesAssumption DEF Sizes
<1>3. last = (LastWord(n - 1) + 1) * WordBits - 1
  BY <1>2, ResizeBound
<1>4. careful /\ Good(vec.x, bits.x) => Good(Resized(vec.x, n, junk), b)
  BY <1>2, <1>3, ResizedGood
<1> HIDE DEF careful, b
<1> QED
  BY <1>1, <1>4, OperatedGood

LEMMA ContentAssign ==
  ASSUME CInv, NEW n \in Sizes, NEW value \in BOOLEAN, Assign(n, value)
  PROVE  Contained' /\ WordsAgree'
<1> DEFINE careful == n > WordBits \/ bits.x \intersect WordBits..MAX_INLINE_BIT = {}
           b == IF value THEN 0..(n - 1) ELSE {}
<1>1. PICK junk : Operated(Assigned(vec.x, n, value, junk), b, careful)
  BY DEF Assign
<1>2. n \in Nat
  BY SizesAssumption DEF Sizes
<1>3. careful /\ Good(vec.x, bits.x) => Good(Assigned(vec.x, n, value, junk), b)
  BY <1>2, AssignedGood
<1> HIDE DEF careful, b
<1> QED
  BY <1>1, <1>3, OperatedGood

LEMMA ContentSetBit ==
  ASSUME CInv, NEW i \in Nat, NEW value \in BOOLEAN, SetBit(i, value)
  PROVE  Contained' /\ WordsAgree'
<1> DEFINE b == IF value THEN bits.x \union {i} ELSE bits.x \ {i}
<1>1. Operated(SetTo(vec.x, i, value), b, TRUE) /\ i <= vec.x.max
  BY DEF SetBit
<1>2. ASSUME Good(vec.x, bits.x) PROVE Good(SetTo(vec.x, i, value), b)
  <2>1. i \in 0..vec.x.max
    BY <1>1, <1>2, GoodIs
  <2> QED
    BY <1>2, <2>1, SetGood
<1> HIDE DEF b
<1> QED
  BY <1>1, <1>2, OperatedGood

LEMMA ContentForceBit ==
  ASSUME CInv, NEW i \in Nat, NEW value \in BOOLEAN, ForceBit(i, value)
  PROVE  Contained' /\ WordsAgree'
<1> DEFINE b == bits.x \union {j \in {i} : value}
<1>1. PICK junk : Operated(SetTo(Resized(vec.x, i + 1, junk), i, value), b, TRUE)
  BY DEF ForceBit
<1>2. i > vec.x.max
  BY DEF ForceBit
<1> DEFINE w == Resized(vec.x, i + 1, junk)
<1>3. ASSUME Good(vec.x, bits.x) PROVE Good(SetTo(w, i, value), b)
  <2>1. vec.x.max \in Int /\ bits.x \subseteq 0..vec.x.max
    BY <1>3, GoodIs
  <2>2. w.max = i
    BY DEF Resized
  <2>3. Good(w, bits.x)
    BY <1>2, <1>3, <2>1, GrownGood
  <2> HIDE DEF w
  <2>4. b = IF value THEN bits.x \union {i} ELSE bits.x \ {i}
    BY <1>2, <2>1
  <2> HIDE DEF b
  <2>5. i \in 0..w.max
    BY <2>2
  <2> QED
    BY <2>3, <2>4, <2>5, SetGood
<1> HIDE DEF w, b
<1>4. Operated(SetTo(w, i, value), b, TRUE)
  BY <1>1 DEF w
<1> QED
  BY <1>3, <1>4, OperatedGood

LEMMA ContentNegate ==
  ASSUME CInv, Negate
  PROVE  Contained' /\ WordsAgree'
BY NegatedGood, OperatedGood DEF Negate

LEMMA ContentAssignment ==
  ASSUME CInv, Assignment
  PROVE  Contained' /\ WordsAgree'
<1> DEFINE careful == "y" \in sound /\ (1 \in DOMAIN vec.x.data \/ vec.y.max > MAX_INLINE_BIT)
<1>1. PICK junk : Becomes(AssignedFrom(vec.x, vec.y, junk), bits.y, careful)
  BY DEF Assignment
<1>2. IsVector(vec.x)
  BY DEF CInv, IInv, Shape
<1>3. careful => Good(AssignedFrom(vec.x, vec.y, junk), bits.y)
  BY <1>2, SoundGood, AssignedFromGood
<1> HIDE DEF careful
<1> QED
  BY <1>1, <1>3, BecomesGood

LEMMA ContentAnd ==
  ASSUME CInv, And
  PROVE  Contained' /\ WordsAgree'
<1>1. PICK junk : Operated(Combined(vec.x, vec.y, junk, "and"), bits.x \intersect bits.y,
                           Fits /\ "y" \in sound)
  BY DEF And
<1>2. (Fits /\ "y" \in sound) /\ Good(vec.x, bits.x) =>
        Good(Combined(vec.x, vec.y, junk, "and"), bits.x \intersect bits.y)
  BY SoundGood, AndGood DEF Fits, Reaches
<1> QED
  BY <1>1, <1>2, OperatedGood

LEMMA ContentXor ==
  ASSUME CInv, Xor
  PROVE  Contained' /\ WordsAgree'
<1> DEFINE b == (bits.x \ bits.y) \union (bits.y \ bits.x)
           careful == Fits /\ Covered /\ "y" \in sound
<1>1. PICK junk : Operated(Combined(vec.x, vec.y, junk, "xor"), b, careful)
  BY DEF Xor
<1>2. careful /\ Good(vec.x, bits.x) => Good(Combined(vec.x, vec.y, junk, "xor"), b)
  BY SoundGood, XorGood DEF Fits, Reaches, Covered
<1> HIDE DEF b, careful
<1> QED
  BY <1>1, <1>2, OperatedGood

LEMMA ContentOr ==
  ASSUME CInv, Or
  PROVE  Contained' /\ WordsAgree'
<1>1. PICK junk :
        Operated(Combined(IF vec.y.max > vec.x.max THEN Resized(vec.x, vec.y.max + 1, junk) ELSE vec.x,
                          vec.y, junk, "or"), bits.x \union bits.y, Fits /\ "y" \in sound)
  BY DEF Or
<1> DEFINE wide == IF vec.y.max > vec.x.max THEN Resized(vec.x, vec.y.max + 1, junk) ELSE vec.x
<1>2. ASSUME Fits, "y" \in sound, Good(vec.x, bits.x)
      PROVE  Good(Combined(wide, vec.y, junk, "or"), bits.x \union bits.y)
  <2>1. Good(vec.y, bits.y)
    BY <1>2, SoundGood
  <2>2. /\ vec.x.max \in Int /\ vec.y.max \in Int /\ vec.y.max >= -1 /\ bits.y \subseteq 0..vec.y.max
        /\ max_word(vec.y.max) \in Int
    BY <1>2, <2>1, GoodIs, MaxWord
  <2>3. CASE vec.y.max > vec.x.max
    <3> DEFINE n == vec.y.max + 1
               w == Resized(vec.x, n, junk)
    <3>1. n \in Nat /\ n - 1 = vec.y.max /\ w.max = n - 1 /\ wide = w
      BY <2>2, <2>3 DEF Resized
    <3>2. Good(w, bits.x)
      BY <1>2, <2>2, <2>3, <3>1, GrownGood
    <3> HIDE DEF n, w, wide
    <3>3. Reaches(w, vec.y) /\ bits.y \subseteq 0..w.max
      BY <2>2, <3>1 DEF Reaches, Larger, MAX_INLINE_WORD
    <3> QED
      BY <2>1, <3>1, <3>2, <3>3, OrGood
  <2>4. CASE ~(vec.y.max > vec.x.max)
    <3>1. wide = vec.x /\ Reaches(vec.x, vec.y) /\ bits.y \subseteq 0..vec.x.max
      BY <1>2, <2>2, <2>4 DEF Fits, Reaches
    <3> HIDE DEF wide
    <3> QED
      BY <1>2, <2>1, <3>1, OrGood
  <2> QED
    BY <2>3, <2>4
<1> HIDE DEF wide
<1>3. Operated(Combined(wide, vec.y, junk, "or"), bits.x \union bits.y, Fits /\ "y" \in sound)
  BY <1>1 DEF wide
<1> QED
  BY <1>2, <1>3, OperatedGood

\* The words that ~y has not do not count, as x has no bits there.
LEMMA MinusGood ==
  ASSUME NEW v, NEW b, Good(v, b), NEW o, NEW d, Good(o, d), NEW junk, b \subseteq 0..o.max
  PROVE  Good(Combined(v, o, junk, "and"), b \intersect d)
<1> DEFINE w == Combined(v, o, junk, "and")
           e == b \intersect d
<1>1. IsVector(v) /\ Covers(v) /\ SameMemory(v, w) /\ v.max \in Int /\ v.max >= -1
      /\ b \subseteq 0..v.max /\ e \subseteq 0..v.max
  BY GoodMemory, GoodIs, CombinedMemory
<1>2. o.max \in Int /\ o.max >= -1 /\ LastWord(o.max) \in Int /\ max_word(o.max) \in Int
      /\ max_word(o.max) <= LastWord(o.max)
  BY GoodIs, LastWordIs
<1>3. ASSUME NEW i \in 0..LastWord(v.max) PROVE w.data[i] = Word(e, i)
  <2>1. i \in Nat /\ i \in DOMAIN v.data /\ v.data[i] = Word(b, i)
    BY <1>1, GoodIs, WordNumber
  <2>2. Word(e, i) = Word(b, i) \intersect Word(d, i)
    BY DEF Word
  <2>3. i \in 0..max_word(v.max) => w.data[i] = v.data[i] \intersect Read(o.data, i, junk)
    BY <1>1, <2>1 DEF IsVector, Combined, Replaced
  <2>4. i \notin 0..max_word(v.max) => w.data[i] = v.data[i]
    BY <1>1, <2>1 DEF IsVector, Combined, Replaced
  <2>5. CASE i \in 0..LastWord(o.max)
    <3>1. Read(o.data, i, junk) = Word(d, i)
      BY <2>5, GoodIs DEF Read
    <3>2. i \notin 0..max_word(v.max) => Word(b, i) = {}
      BY <1>1, UntouchedWord
    <3> QED
      BY <2>1, <2>2, <2>3, <2>4, <3>1, <3>2
  <2>6. CASE i \notin 0..LastWord(o.max)
    <3>1. i > max_word(o.max)
      BY <1>2, <2>1, <2>6
    <3>2. Word(b, i) = {}
      BY <1>2, <2>1, <3>1, WordBeyond
    <3> QED
      BY <2>1, <2>2, <2>3, <2>4, <3>2
  <2> QED
    BY <2>5, <2>6
<1> HIDE DEF e
<1> QED
  BY <1>1, <1>3, GoodAgain DEF e

LEMMA ContentMinus ==
  ASSUME CInv, Minus
  PROVE  Contained' /\ WordsAgree'
<1> DEFINE careful == bits.x \subseteq 0..vec.y.max /\ "y" \in sound
<1>1. PICK junk :
        Operated(Combined(vec.x, Negated(CopyOf(vec.y, junk)), junk, "and"), bits.x \ bits.y, careful)
  BY DEF Minus
<1> DEFINE o == Negated(CopyOf(vec.y, junk))
<1>2. ASSUME careful, Good(vec.x, bits.x)
      PROVE  Good(Combined(vec.x, o, junk, "and"), bits.x \ bits.y)
  <2>1. Good(CopyOf(vec.y, junk), bits.y) /\ CopyOf(vec.y, junk).max = vec.y.max
    BY <1>2, SoundGood, CopiedGood DEF CopyOf
  <2>2. Good(o, 0..vec.y.max \ bits.y)
    BY <2>1, NegatedGood
  <2>3. o.max = vec.y.max
    BY <2>1, GoodMemory, NegatedMemory DEF SameMemory
  <2> HIDE DEF o
  <2>4. Good(Combined(vec.x, o, junk, "and"), bits.x \intersect (0..vec.y.max \ bits.y))
    BY <1>2, <2>2, <2>3, MinusGood
  <2>5. bits.x \intersect (0..vec.y.max \ bits.y) = bits.x \ bits.y
    BY <1>2
  <2> QED
    BY <2>4, <2>5
<1> HIDE DEF careful, o
<1>3. Operated(Combined(vec.x, o, junk, "and"), bits.x \ bits.y, careful)
  BY <1>1 DEF o
<1> QED
  BY <1>2, <1>3, OperatedGood

LEMMA ContentOffset ==
  ASSUME CInv, NEW offset \in Nat, Offset(offset)
  PROVE  Contained' /\ WordsAgree'
<1> DEFINE moved == Moved(bits.y, offset)
           careful == moved \subseteq 0..vec.x.max /\ "y" \in sound
<1>1. PICK junk : Operated(OffsetOr(vec.x, vec.y, offset, junk), bits.x \union moved, careful)
  BY DEF Offset, Moved
<1>2. careful /\ Good(vec.x, bits.x) =>
        Good(OffsetOr(vec.x, vec.y, offset, junk), bits.x \union moved)
  BY SoundGood, OffsetGood
<1> HIDE DEF careful, moved
<1> QED
  BY <1>1, <1>2, OperatedGood

LEMMA ContentSwap ==
  ASSUME CInv, Swap
  PROVE  Contained' /\ WordsAgree'
<1>1. /\ vec'.x = vec.y /\ vec'.y = vec.x /\ bits'.x = bits.y /\ bits'.y = bits.x
      /\ bits' = [x |-> bits.y, y |-> bits.x]
  BY DEF Swap
<1>2. sound' \subseteq {"x", "y"} /\ ("x" \in sound' => "y" \in sound) /\ ("y" \in sound' => "x" \in sound)
  BY DEF Swap, CInv, IInv, Shape
<1>3. ASSUME NEW s \in sound' PROVE Holds(vec'[s], bits'[s])
  BY <1>1, <1>2, <1>3 DEF CInv, WordsAgree
<1> QED
  BY <1>1, <1>3 DEF Contained, WordsAgree, Holds, Word

\* The words of w are those of o without those of v, as far as v goes.
Differs(w, diff, v, o, junk) ==
  \A i \in DOMAIN diff.data :
    w.data[i] = IF i \in 0..max_word(v.max) THEN Read(o.data, i, junk) \ v.data[i] ELSE diff.data[i]

\* diff starts as a copy of y that is as long as x, and gets the words of y without
\* those of x, as they were.
LEMMA DifferenceGood ==
  ASSUME NEW v, NEW b, Good(v, b), NEW o, NEW d, Good(o, d), Reaches(v, o), d \subseteq 0..v.max,
         NEW diff, Good(diff, d), diff.max = v.max, NEW junk,
         NEW w, SameMemory(diff, w), Differs(w, diff, v, o, junk)
  PROVE  Good(w, d \ b)
<1> DEFINE e == d \ b
<1>1. IsVector(diff) /\ Covers(diff) /\ v.max \in Int /\ v.max >= -1 /\ e \subseteq 0..v.max
      /\ o.max \in Int
  BY GoodMemory, GoodIs
<1>2. ASSUME NEW i \in 0..LastWord(v.max) PROVE w.data[i] = Word(e, i)
  <2>1. i \in DOMAIN diff.data /\ diff.data[i] = Word(d, i)
    BY GoodIs
  <2>2. Word(e, i) = Word(d, i) \ Word(b, i)
    BY DEF Word
  <2>3. CASE i \in 0..max_word(v.max)
    <3>1. Read(o.data, i, junk) = Word(d, i) /\ v.data[i] = Word(b, i)
      <4>1. i \in 0..LastWord(o.max)
        BY <1>1, <2>3, LastWordIs DEF Reaches, LastWord
      <4>2. Read(o.data, i, junk) = Word(d, i)
        BY <4>1, GoodIs DEF Read
      <4>3. v.data[i] = Word(b, i)
        BY GoodIs
      <4> QED
        BY <4>2, <4>3
    <3>2. w.data[i] = Read(o.data, i, junk) \ v.data[i]
      BY <2>1, <2>3 DEF Differs
    <3> QED
      BY <2>2, <3>1, <3>2
  <2>4. CASE i \notin 0..max_word(v.max)
    <3>1. Word(d, i) = {}
      BY <1>1, <2>4, UntouchedWord
    <3>2. w.data[i] = diff.data[i]
      BY <2>1, <2>4 DEF Differs
    <3> QED
      BY <2>1, <2>2, <3>1, <3>2
  <2> QED
    BY <2>3, <2>4
<1> HIDE DEF e
<1> QED
  BY <1>1, <1>2, GoodAgain DEF e

LEMMA ContentOrWithDifference ==
  ASSUME CInv, OrWithDifference
  PROVE  Contained' /\ WordsAgree'
<1>1. PICK junk :
        LET diff == Resized(CopyOf(vec.y, junk), vec.x.max + 1, junk)
        IN vec' = [x |-> Combined(vec.x, vec.y, junk, "or"),
                   y |-> [diff EXCEPT !.data =
                           Replaced(@, 0, max_word(vec.x.max),
                                    LAMBDA i : Read(vec.y.data, i, junk) \ vec.x.data[i])]]
  BY DEF OrWithDifference
<1>2. /\ bits' = [x |-> bits.x \union bits.y, y |-> bits.y \ bits.x]
      /\ sound' = IF Fits /\ Covered /\ sound = {"x", "y"} THEN sound ELSE {}
  BY DEF OrWithDifference
<1> DEFINE c == CopyOf(vec.y, junk)
           n == vec.x.max + 1
           diff == Resized(c, n, junk)
           w == [diff EXCEPT !.data = Replaced(diff.data, 0, max_word(vec.x.max),
                                    LAMBDA i : Read(vec.y.data, i, junk) \ vec.x.data[i])]
           v == Combined(vec.x, vec.y, junk, "or")
<1>3. vec'.x = v /\ vec'.y = w
  BY <1>1
<1>4. ASSUME NEW s \in sound' PROVE Good(v, bits.x \union bits.y) /\ Good(w, bits.y \ bits.x)
  <2>1. Reaches(vec.x, vec.y) /\ bits.y \subseteq 0..vec.x.max /\ sound = {"x", "y"}
    BY <1>2, <1>4 DEF Fits, Reaches, Covered
  <2>2. Good(vec.x, bits.x) /\ Good(vec.y, bits.y)
    BY <2>1, SoundGood
  <2>3. n \in Nat /\ n - 1 = vec.x.max
    BY <2>2, GoodIs
  <2>4. Good(c, bits.y)
    BY <2>2, CopiedGood
  <2> HIDE DEF c
  <2>5. Good(diff, bits.y)
    <3>1. bits.y \intersect n..((LastWord(n - 1) + 1) * WordBits - 1) = {}
      BY <2>1, <2>2, <2>3, GoodIs
    <3>2. bits.y \intersect 0..(n - 1) = bits.y
      BY <2>1, <2>3
    <3>3. Good(diff, bits.y \intersect 0..(n - 1))
      BY <2>3, <2>4, <3>1, ResizedGood
    <3> QED
      BY <3>2, <3>3
  <2>6. diff.max = vec.x.max
    BY <2>3 DEF Resized
  <2> HIDE DEF n, diff
  <2>7. IsVector(diff)
    BY <2>5, GoodMemory
  <2> DEFINE data == Replaced(diff.data, 0, max_word(vec.x.max),
                              LAMBDA i : Read(vec.y.data, i, junk) \ vec.x.data[i])
  <2>8. /\ DOMAIN data = DOMAIN diff.data
        /\ \A i \in DOMAIN diff.data :
             data[i] = IF i \in 0..max_word(vec.x.max)
                       THEN Read(vec.y.data, i, junk) \ vec.x.data[i] ELSE diff.data[i]
    BY DEF Replaced
  <2>9. w = [diff EXCEPT !.data = data]
    OBVIOUS
  <2> HIDE DEF data, w
  <2>10. w.data = data /\ SameMemory(diff, w)
    BY <2>7, <2>8, <2>9, SameMemoryWith DEF IsVector
  <2>11. Differs(w, diff, vec.x, vec.y, junk)
    BY <2>8, <2>10 DEF Differs
  <2>12. Good(w, bits.y \ bits.x)
    BY <2>1, <2>2, <2>5, <2>6, <2>10, <2>11, DifferenceGood
  <2> QED
    BY <2>1, <2>2, <2>12, OrGood
<1> HIDE DEF v, w
<1>5. ASSUME NEW s \in sound' PROVE Holds(vec'[s], bits'[s])
  <2>1. s = "x" \/ s = "y"
    BY <1>2, <1>5
  <2> QED
    BY <1>2, <1>3, <1>4, <1>5, <2>1 DEF Good
<1> QED
  BY <1>2, <1>5 DEF Contained, WordsAgree, Holds, Word

(***************************************************************************)
(* The theorems                                                            *)
(***************************************************************************)

LEMMA CInvInit == Init => CInv
<1> SUFFICES ASSUME Init PROVE CInv
  OBVIOUS
<1>1. IInv
  BY IInvInit
<1>2. vec = [x |-> Default, y |-> Default] /\ bits = [x |-> {}, y |-> {}] /\ sound = {"x", "y"}
  BY DEF Init
<1> QED
  BY <1>1, <1>2, DefaultGood DEF CInv, Contained, WordsAgree, Good

LEMMA CInvNext ==
  ASSUME StringsCleared
  PROVE  CInv /\ [Next]_vars => CInv'
<1> SUFFICES ASSUME CInv, [Next]_vars PROVE CInv'
  OBVIOUS
<1>1. OneByteIsInline
  BY DEF OneByteIsInline, StringsCleared, Cleared
<1>2. IInv'
  BY <1>1, IInvNext DEF CInv
<1>3. CASE \E n \in Sizes, bit \in BOOLEAN : ConstructSize(n, bit)
  BY <1>2, <1>3, ContentConstructSize DEF CInv
<1>4. CASE \E n \in 1..MaxString : \E ones \in SUBSET (0..(n - 1)) : ConstructString(n, ones)
  BY <1>2, <1>4, ContentConstructString DEF CInv
<1>5. CASE ConstructCopy \/ Destroy \/ Clear
  BY <1>2, <1>5, ContentConstructCopy, ContentDestroy, ContentClear DEF CInv
<1>6. CASE \E n \in Sizes : Resize(n)
  BY <1>2, <1>6, ContentResize DEF CInv
<1>7. CASE \E n \in Sizes, value \in BOOLEAN : Assign(n, value)
  BY <1>2, <1>7, ContentAssign DEF CInv
<1>8. CASE \E i \in 0..(MaxSize - 1), value \in BOOLEAN : SetBit(i, value) \/ ForceBit(i, value)
  <2>1. PICK i \in 0..(MaxSize - 1), value \in BOOLEAN : SetBit(i, value) \/ ForceBit(i, value)
    BY <1>8
  <2>2. i \in Nat
    BY SizesAssumption
  <2> QED
    BY <1>2, <2>1, <2>2, ContentSetBit, ContentForceBit DEF CInv
<1>9. CASE Negate \/ Assignment \/ And \/ Or \/ Xor \/ Minus
  BY <1>2, <1>9, ContentNegate, ContentAssignment, ContentAnd, ContentOr, ContentXor, ContentMinus
     DEF CInv
<1>10. CASE \E offset \in 0..(MaxSize - 1) : Offset(offset)
  <2>1. PICK offset \in 0..(MaxSize - 1) : Offset(offset)
    BY <1>10
  <2>2. offset \in Nat
    BY SizesAssumption
  <2> QED
    BY <1>2, <2>1, <2>2, ContentOffset DEF CInv
<1>11. CASE OrWithDifference \/ Swap
  BY <1>2, <1>11, ContentOrWithDifference, ContentSwap DEF CInv
<1>12. CASE UNCHANGED vars
  BY <1>2, <1>12 DEF vars, CInv, Contained, WordsAgree, Holds, Word
<1> QED
  BY <1>3, <1>4, <1>5, <1>6, <1>7, <1>8, <1>9, <1>10, <1>11, <1>12 DEF Next

LEMMA ContentsFollow ==
  ASSUME CInv
  PROVE  BitsAgree
BY SoundGood, ContentsOfGood DEF BitsAgree

LEMMA AnswersFollow ==
  ASSUME CInv
  PROVE  QueriesAgree
<1>1. \A s \in sound : zero(vec[s]) <=> bits[s] = {}
  BY SoundGood, ZeroOfGood
<1>2. ASSUME sound = {"x", "y"}
      PROVE  /\ Equal(vec.x, vec.y) <=> vec.x.max = vec.y.max /\ bits.x = bits.y
             /\ nonzero_intersection(vec.x, vec.y) <=> bits.x \intersect bits.y /= {}
  <2>1. Good(vec.x, bits.x) /\ Good(vec.y, bits.y)
    BY <1>2, SoundGood
  <2> QED
    BY <2>1, EqualOfGood, IntersectionOfGood
<1> QED
  BY <1>1, <1>2 DEF QueriesAgree

\* The lengths of the code: words of 32 bits, 8 bits cleared for a character.
LEMMA TheCodeClears ==
  ASSUME WordBits = 32, \A n \in Sizes : ClearedBits[n] = 8 * n
  PROVE  StringsCleared
<1> SUFFICES ASSUME NEW n \in Sizes, ClearedBits[n] > MAX_INLINE_BIT PROVE Cleared(n)
  BY DEF StringsCleared
<1>1. n \in Nat /\ MAX_INLINE_BIT = 63
  BY SizesAssumption DEF Sizes, MAX_INLINE_BIT, MAX_INLINE_WORD
<1>2. n >= 8 /\ ClearedBits[n] = 8 * n
  BY <1>1
<1>3. max_word(n - 1) = (n - 1) \div 32
  BY <1>1, <1>2 DEF max_word
<1>4. LastWord(n - 1) = IF (n - 1) \div 32 > 1 THEN (n - 1) \div 32 ELSE 1
  BY <1>3 DEF LastWord, Larger, MAX_INLINE_WORD
<1>5. n - 1 \in Nat /\ (n - 1) \div 32 \in Nat /\ ((n - 1) \div 32) * 32 <= n - 1
  BY <1>1, <1>2
<1> QED
  BY <1>1, <1>2, <1>4, <1>5 DEF Cleared

\* An object used with care holds the bits it should, after any sequence of
\* operations, for words and vectors of any length, inline or on the heap.  What a
\* string constructor must clear for it is what the code clears (TheCodeClears).
THEOREM BitsAlwaysAgree ==
  ASSUME StringsCleared
  PROVE  Spec => []BitsAgree
<1>1. CInv /\ [Next]_vars => CInv'
  BY CInvNext
<1>2. CInv => BitsAgree
  BY ContentsFollow
<1> QED
  BY <1>1, <1>2, CInvInit, PTL DEF Spec

\* ==, zero and nonzero_intersection answer for the bits, although they look at
\* whole words and at words beyond the end.
THEOREM QueriesAlwaysAgree ==
  ASSUME StringsCleared
  PROVE  Spec => []QueriesAgree
<1>1. CInv /\ [Next]_vars => CInv'
  BY CInvNext
<1>2. CInv => QueriesAgree
  BY AnswersFollow
<1> QED
  BY <1>1, <1>2, CInvInit, PTL DEF Spec
=============================================================================
