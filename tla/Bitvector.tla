----------------------------- MODULE Bitvector -----------------------------
(***************************************************************************)
(* Bitvector: bits in words, two of them inside the object and more of     *)
(* them on the heap.  A word is the set of its bits that are 1; _data is a *)
(* function from word numbers to words, whose domain is what is allocated. *)
(* What is read outside of it, or never initialised, is any word.          *)
(*                                                                         *)
(* An object x is worked on; y is its operand, or the object x is swapped  *)
(* with.  Beside the words goes the set of bits that x should hold.        *)
(***************************************************************************)
EXTENDS Integers, FiniteSets

CONSTANTS
  WordBits,      \* data_word_bits: 32
  MaxSize,       \* bounds the size of a vector
  MaxString,     \* bounds the length of the strings it is made from
  ClearedBits    \* ClearedBits[n]: the bits in n bytes, 8 * n

Sizes == 0..MaxSize

ASSUME SizesAssumption ==
  /\ WordBits \in Nat \ {0} /\ MaxSize \in Nat /\ MaxString \in Sizes
  /\ ClearedBits \in [Sizes -> Nat] /\ \A n \in Sizes : ClearedBits[n] >= n

MAX_INLINE_WORD == 1
MAX_INLINE_BIT == (MAX_INLINE_WORD + 1) * WordBits - 1

WordBit == 0..(WordBits - 1)
Words == SUBSET WordBit

(***************************************************************************)
(* The representation                                                      *)
(***************************************************************************)

Larger(m, n) == IF m > n THEN m ELSE n

max_word(max) == IF max < 0 THEN -1 ELSE max \div WordBits

\* Bit i of the words of data.
Has(data, i) == (i % WordBits) \in data[i \div WordBits]

\* Word i of data, or of whatever lies behind it.
Read(data, i, junk) == IF i \in DOMAIN data THEN data[i] ELSE junk

\* The first n words of data in memory of their own; zeroes if there are more.
Copied(data, have, want, junk) ==
  [i \in 0..(want - 1) |-> IF i < have THEN Read(data, i, junk) ELSE {}]

\* Words lo to hi of data replaced by f(i); a write outside of data is lost.
Replaced(data, lo, hi, f(_)) ==
  [i \in DOMAIN data |-> IF i \in lo..hi THEN f(i) ELSE data[i]]

\* The inline words of a new object.
Inline(word) == [i \in 0..MAX_INLINE_WORD |-> IF i = 0 THEN word ELSE {}]

\* Fault: the words that were there are not taken along.
resize_to_max_empty(data, have_u, new_max, junk) ==
  LET want == new_max \div WordBits + 1
      have == Larger(have_u, MAX_INLINE_WORD + 1)
  IN IF want <= have THEN data ELSE Copied(data, 0, want, junk)

resize_to_max(data, have_u, new_max, junk) ==
  LET want == new_max \div WordBits + 1
      have == Larger(have_u, MAX_INLINE_WORD + 1)
  IN IF want <= have THEN data ELSE Copied(data, have, want, junk)

Resized(v, n, junk) ==
  [max |-> n - 1,
   data |-> IF n - 1 > MAX_INLINE_BIT
            THEN resize_to_max(v.data, max_word(v.max) + 1, n - 1, junk)
            ELSE v.data]

\* Fault: whole words only.
clear_last_never(v) == v

clear_last(v) ==
  LET last == IF v.max < 0 THEN 0 ELSE v.max \div WordBits
      kept == IF v.max < 0 THEN {} ELSE 0..(v.max % WordBits)
  IN [v EXCEPT !.data = Replaced(v.data, last, last, LAMBDA i : v.data[i] \intersect kept)]

Assigned(v, n, value, junk) ==
  LET resized == Resized(v, n, junk)
      copy == IF n > WordBits THEN max_word(resized.max) ELSE 0
      bits == IF value THEN WordBit ELSE {}
      filled == [resized EXCEPT !.data = Replaced(resized.data, 0, copy, LAMBDA i : bits)]
  IN IF value THEN clear_last(filled) ELSE filled

Negated(v) ==
  clear_last([v EXCEPT !.data =
    Replaced(v.data, 0, max_word(v.max), LAMBDA i : WordBit \ v.data[i])])

\* The copy constructor reads both inline words, whatever the size.
CopyOf(o, junk) ==
  [max |-> o.max,
   data |-> LET words == IF o.max > MAX_INLINE_BIT THEN max_word(o.max) + 1 ELSE MAX_INLINE_WORD + 1
            IN Copied(o.data, words, words, junk)]

\* Fault: all words go into the memory there is.
AssignedInPlace(v, o, junk) ==
  [max |-> o.max,
   data |-> Replaced(v.data, 0, Larger(max_word(o.max), MAX_INLINE_WORD),
                     LAMBDA i : Read(o.data, i, junk))]

\* operator=: up to two words go into the memory there is.
AssignedFrom(v, o, junk) ==
  [max |-> o.max,
   data |-> IF max_word(o.max) <= MAX_INLINE_WORD
            THEN Replaced(v.data, 0, MAX_INLINE_WORD, LAMBDA i : Read(o.data, i, junk))
            ELSE Copied(o.data, max_word(o.max) + 1, max_word(o.max) + 1, junk)]

\* data[i] op= o_data[i] for the words of v.
Combined(v, o, junk, op) ==
  LET word(a, b) == CASE op = "and" -> a \intersect b
                      [] op = "or"  -> a \union b
                      [] op = "xor" -> (a \ b) \union (b \ a)
  IN [v EXCEPT !.data =
       Replaced(v.data, 0, max_word(v.max), LAMBDA i : word(v.data[i], Read(o.data, i, junk)))]

\* x << n and x >> (32 - n).
ShiftedUp(word, n) == {b + n : b \in word} \intersect WordBit
Carried(word, n) == {b + n - WordBits : b \in {c \in word : c + n >= WordBits}}

\* offset_or: word i of v takes the low part of one word of o and the carry of
\* the word before; the loop ends with the words of v or of o, and the carry of
\* the last word of o still gets in.
OffsetOr(v, o, offset, junk) ==
  LET shift == offset % WordBits
      first == offset \div WordBits
      last == Larger(max_word(o.max), 0)
      from(i) == (IF i - first \in 0..last
                  THEN ShiftedUp(Read(o.data, i - first, junk), shift) ELSE {})
                 \union
                 (IF i - first - 1 \in 0..last
                  THEN Carried(Read(o.data, i - first - 1, junk), shift) ELSE {})
  IN [v EXCEPT !.data =
       Replaced(v.data, first, max_word(v.max), LAMBDA i : v.data[i] \union from(i))]

\* The string constructors allocate a word and clear a byte for every character.
FromString(n, ones, junk) ==
  [max |-> n - 1,
   data |-> [w \in 0..(n - 1) |->
     {b \in WordBit : LET i == w * WordBits + b
                      IN \/ i \in ones
                         \/ i \notin 0..(n - 1) /\ i >= ClearedBits[n] /\ b \in junk}]]

(***************************************************************************)
(* The questions                                                           *)
(***************************************************************************)

zero(v) == \A i \in 0..max_word(v.max) : v.data[i] = {}

Equal(v, o) ==
  /\ v.max = o.max
  /\ LET words == IF v.max <= MAX_INLINE_BIT THEN MAX_INLINE_WORD ELSE max_word(v.max)
     IN \A i \in 0..words : v.data[i] = o.data[i]

nonzero_intersection(v, o) ==
  LET nn == IF max_word(o.max) > max_word(v.max) THEN max_word(v.max) ELSE max_word(o.max)
  IN \E i \in 0..nn : v.data[i] \intersect o.data[i] /= {}

\* operator[] and to_string.
Contents(v) == {i \in 0..v.max : Has(v.data, i)}

(***************************************************************************)
(* The life of two objects                                                 *)
(***************************************************************************)

VARIABLES
  vec,     \* vec.x and vec.y: _max and the words of _data
  bits,    \* bits.x and bits.y: the bits that should be 1
  sound    \* objects used with care so far, as the actions say (history)

vars == <<vec, bits, sound>>

Default == [max |-> -1, data |-> Inline({})]

Init ==
  /\ vec = [x |-> Default, y |-> Default]
  /\ bits = [x |-> {}, y |-> {}]
  /\ sound = {"x", "y"}

\* x becomes v, which should hold b, and stays sound if it was used with care.
Becomes(v, b, careful) ==
  /\ vec' = [vec EXCEPT !.x = v]
  /\ bits' = [bits EXCEPT !.x = b]
  /\ sound' = IF careful THEN sound \union {"x"} ELSE sound \ {"x"}

Operated(v, b, careful) == Becomes(v, b, careful /\ "x" \in sound)

\* The words a reader of words 0 to n of v may find outside.
Junk(v, n) == IF 0..n \subseteq DOMAIN v.data THEN {{}} ELSE Words

\* Objects are constructed in place of a default one.
Fresh == vec.x = Default

ConstructSize(n, bit) ==
  /\ Fresh
  /\ LET new == [max |-> n - 1,
                data |-> IF n - 1 > MAX_INLINE_BIT
                         THEN resize_to_max(Inline({}), 0, n - 1, {}) ELSE Inline({})]
     IN Becomes(IF bit THEN Assigned(new, n, bit, {}) ELSE new,
                IF bit THEN 0..(n - 1) ELSE {}, TRUE)

\* Everything operator== looks at is cleared from a certain length on.
ConstructString(n, ones) ==
  /\ Fresh
  /\ \E junk \in Words :
       Becomes(FromString(n, ones, junk), ones, ClearedBits[n] > MAX_INLINE_BIT)

ConstructCopy ==
  /\ Fresh
  /\ \E junk \in Junk(vec.y, MAX_INLINE_WORD) :
       Becomes(CopyOf(vec.y, junk), bits.y, "y" \in sound)

Destroy == Becomes(Default, {}, TRUE)

Clear ==
  Operated([vec.x EXCEPT !.data = Replaced(@, 0, max_word(vec.x.max), LAMBDA i : {})], {}, TRUE)

\* resize leaves the words as they are.  With care: no bit that is 1 stays
\* behind beyond the new end, in the last word or in the inline words.
Resize(n) ==
  LET last == (Larger((n - 1) \div WordBits, MAX_INLINE_WORD) + 1) * WordBits - 1
  IN \E junk \in Junk(vec.x, MAX_INLINE_WORD) :
       Operated(Resized(vec.x, n, junk), bits.x \intersect 0..(n - 1),
                bits.x \intersect n..last = {})

\* assign sets only the first word if n is at most a word.  With care: then
\* there is nothing in the second.
Assign(n, value) ==
  \E junk \in Junk(vec.x, MAX_INLINE_WORD) :
    Operated(Assigned(vec.x, n, value, junk), IF value THEN 0..(n - 1) ELSE {},
             n > WordBits \/ bits.x \intersect WordBits..MAX_INLINE_BIT = {})

SetTo(v, i, value) ==
  [v EXCEPT !.data[i \div WordBits] =
    IF value THEN @ \union {i % WordBits} ELSE @ \ {i % WordBits}]

\* operator[] and the assignment to the Bit; force_bit resizes.
SetBit(i, value) ==
  /\ i <= vec.x.max
  /\ i \div WordBits \in DOMAIN vec.x.data
  /\ Operated(SetTo(vec.x, i, value), IF value THEN bits.x \union {i} ELSE bits.x \ {i}, TRUE)

ForceBit(i, value) ==
  /\ i > vec.x.max
  /\ \E junk \in Junk(vec.x, MAX_INLINE_WORD) :
       LET resized == Resized(vec.x, i + 1, junk)
       IN /\ i \div WordBits \in DOMAIN resized.data
          /\ Operated(SetTo(resized, i, value), bits.x \union {j \in {i} : value}, TRUE)

Negate == Operated(Negated(vec.x), 0..vec.x.max \ bits.x, TRUE)

\* x = y
Assignment ==
  \E junk \in Junk(vec.y, MAX_INLINE_WORD) :
    Becomes(AssignedFrom(vec.x, vec.y, junk), bits.y,
            "y" \in sound /\ (1 \in DOMAIN vec.x.data \/ vec.y.max > MAX_INLINE_BIT))

\* Every word of x has a word of y that counts; no bit of y is beyond x.
Fits == max_word(vec.x.max) <= Larger(max_word(vec.y.max), MAX_INLINE_WORD)
Covered == bits.y \subseteq 0..vec.x.max
Unread == Junk(vec.y, max_word(vec.x.max))

\* x &= y, with care unless x has more words than y.
And ==
  \E junk \in Unread :
    Operated(Combined(vec.x, vec.y, junk, "and"),
             bits.x \intersect bits.y, Fits /\ "y" \in sound)

\* x |= y makes x as long as y.
Or ==
  \E junk \in Unread \union Junk(vec.x, MAX_INLINE_WORD) :
    LET wide == IF vec.y.max > vec.x.max THEN Resized(vec.x, vec.y.max + 1, junk) ELSE vec.x
    IN Operated(Combined(wide, vec.y, junk, "or"),
                bits.x \union bits.y, Fits /\ "y" \in sound)

\* x ^= y does not.
Xor ==
  \E junk \in Unread :
    Operated(Combined(vec.x, vec.y, junk, "xor"),
             (bits.x \ bits.y) \union (bits.y \ bits.x), Fits /\ Covered /\ "y" \in sound)

\* x -= y is x &= ~y, and ~y has no bits beyond the end of y.
Minus ==
  \E junk \in Unread \union Junk(vec.y, MAX_INLINE_WORD) :
    Operated(Combined(vec.x, Negated(CopyOf(vec.y, junk)), junk, "and"),
             bits.x \ bits.y, bits.x \subseteq 0..vec.y.max /\ "y" \in sound)

\* x.offset_or(y, offset), with care if the bits of y stay within x.
Offset(offset) ==
  /\ offset <= vec.x.max
  /\ LET moved == {i + offset : i \in bits.y}
     IN \E junk \in Junk(vec.y, 0) :
          Operated(OffsetOr(vec.x, vec.y, offset, junk), bits.x \union moved,
                   moved \subseteq 0..vec.x.max /\ "y" \in sound)

\* x.or_with_difference(y, diff); diff is a copy of y before and y afterwards.
OrWithDifference ==
  \E junk \in Unread \union Junk(vec.y, MAX_INLINE_WORD) :
    LET diff == Resized(CopyOf(vec.y, junk), vec.x.max + 1, junk)
        careful == Fits /\ Covered /\ sound = {"x", "y"}
        all == 0..max_word(vec.x.max)
    IN /\ all \subseteq DOMAIN vec.x.data /\ all \subseteq DOMAIN diff.data
       /\ vec' = [x |-> Combined(vec.x, vec.y, junk, "or"),
                  y |-> [diff EXCEPT !.data =
                          Replaced(@, 0, max_word(vec.x.max),
                                   LAMBDA i : Read(vec.y.data, i, junk) \ vec.x.data[i])]]
       /\ bits' = [x |-> bits.x \union bits.y, y |-> bits.y \ bits.x]
       /\ sound' = IF careful THEN sound ELSE {}

Swap ==
  /\ vec' = [x |-> vec.y, y |-> vec.x]
  /\ bits' = [x |-> bits.y, y |-> bits.x]
  /\ sound' = {IF s = "x" THEN "y" ELSE "x" : s \in sound}

Next ==
  \/ \E n \in Sizes, bit \in BOOLEAN : ConstructSize(n, bit)
  \/ \E n \in 1..MaxString : \E ones \in SUBSET (0..(n - 1)) : ConstructString(n, ones)
  \/ ConstructCopy \/ Destroy \/ Clear
  \/ \E n \in Sizes : Resize(n)
  \/ \E n \in Sizes, value \in BOOLEAN : Assign(n, value)
  \/ \E i \in 0..(MaxSize - 1), value \in BOOLEAN : SetBit(i, value) \/ ForceBit(i, value)
  \/ Negate \/ Assignment \/ And \/ Or \/ Xor \/ Minus
  \/ \E offset \in 0..(MaxSize - 1) : Offset(offset)
  \/ OrWithDifference \/ Swap

Spec == Init /\ [][Next]_vars

(***************************************************************************)
(* Properties                                                              *)
(***************************************************************************)

\* An object used with care holds the bits it should, whatever it went through,
\* growing, shrinking, copying and swapping, in its inline words or on the heap.
BitsAgree == \A s \in sound : Contents(vec[s]) = bits[s]

\* ==, zero and nonzero_intersection, which look at whole words, the first two at
\* words beyond the end as well, answer for the bits alone.
QueriesAgree ==
  /\ \A s \in sound : zero(vec[s]) <=> bits[s] = {}
  /\ sound = {"x", "y"} =>
       /\ Equal(vec.x, vec.y) <=> vec.x.max = vec.y.max /\ bits.x = bits.y
       /\ nonzero_intersection(vec.x, vec.y) <=> bits.x \intersect bits.y /= {}

\* All words that the size stands for are allocated, and the two words that ==
\* and the copy constructor touch whatever the size.
MemoryCoversSize ==
  \A s \in sound : 0..Larger(max_word(vec[s].max), MAX_INLINE_WORD) \subseteq DOMAIN vec[s].data
=============================================================================
