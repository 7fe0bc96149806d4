------------------------ MODULE HashClassifierProofs ------------------------
(***************************************************************************)
(* Proofs about HashClassifier and the prefix tree it keeps, for any       *)
(* identifiers, handlers and collisions of the hash codes.                 *)
(***************************************************************************)
EXTENDS HashClassifier, SequenceTheorems, WellFoundedInduction, TLAPS

(***************************************************************************)
(* Prefixes                                                                *)
(***************************************************************************)

Chunks == UNION {{rid[i] : i \in DOMAIN rid} : rid \in Rids}

LEMMA RidsAreSequences == Rids \subseteq Seq(Chunks)
<1> SUFFICES ASSUME NEW rid \in Rids PROVE rid \in Seq(Chunks)
  OBVIOUS
<1> DEFINE C == {rid[i] : i \in DOMAIN rid}
<1>1. rid \in Seq(C)
  BY RidsAssumption
<1>2. C \subseteq Chunks
  BY DEF Chunks
<1> HIDE DEF C
<1> QED
  BY <1>1, <1>2

LEMMA PrefixShape ==
  ASSUME NEW C, NEW s \in Seq(C), NEW n \in 0..Len(s)
  PROVE  /\ SubSeq(s, 1, n) \in Seq(C)
         /\ Len(SubSeq(s, 1, n)) = n
         /\ SubSeq(s, 1, n) \in Prefixes(s)
<1>1. \A i \in 1..n : s[i] \in C
  OBVIOUS
<1>2. SubSeq(s, 1, n) \in Seq(C) /\ Len(SubSeq(s, 1, n)) = IF 1 <= n THEN n - 1 + 1 ELSE 0
  BY ONLY <1>1, SubSeqProperties, n \in 0..Len(s), Len(s) \in Nat
<1> QED
  BY <1>2 DEF Prefixes

LEMMA PrefixOfPrefix ==
  ASSUME NEW C, NEW s \in Seq(C), NEW n \in 0..Len(s), NEW m \in 0..n
  PROVE  SubSeq(SubSeq(s, 1, n), 1, m) = SubSeq(s, 1, m)
<1>1. CASE m = 0
  BY <1>1, SubSeqEmpty
<1>2. CASE m > 0
  <2>1. /\ 1 \in 1..Len(s) /\ n \in 1..Len(s)
        /\ 1 \in 1..(n - 1 + 1) /\ m \in 1..(n - 1 + 1)
    BY <1>2
  <2>2. SubSeq(SubSeq(s, 1, n), 1, m) = SubSeq(s, 1 + 1 - 1, 1 + m - 1)
    BY <2>1, SubSeqOfSubSeq
  <2> QED
    BY <1>2, <2>2
<1> QED
  BY <1>1, <1>2

\* The prefixes of a sequence are sequences; it is one of them, and so is the root;
\* they are closed under prefixes, and of two the shorter is a prefix of the longer.
LEMMA PrefixFacts ==
  ASSUME NEW C, NEW s \in Seq(C)
  PROVE  /\ Root \in Prefixes(s) /\ s \in Prefixes(s)
         /\ \A p \in Prefixes(s) : p \in Seq(C) /\ Prefixes(p) \subseteq Prefixes(s)
         /\ \A m, n \in 0..Len(s) : m <= n => SubSeq(s, 1, m) \in Prefixes(SubSeq(s, 1, n))
<1>1. Root \in Prefixes(s)
  <2>1. SubSeq(s, 1, 0) = <<>> /\ 0 \in 0..Len(s)
    BY SubSeqEmpty
  <2> QED
    BY <2>1 DEF Prefixes, Root
<1>2. s \in Prefixes(s)
  <2>1. SubSeq(s, 1, Len(s)) = s /\ Len(s) \in 0..Len(s)
    BY SubSeqFull
  <2> QED
    BY <2>1 DEF Prefixes
<1>3. ASSUME NEW m \in 0..Len(s), NEW n \in 0..Len(s), m <= n
      PROVE  SubSeq(s, 1, m) \in Prefixes(SubSeq(s, 1, n))
  <2>1. SubSeq(s, 1, n) \in Seq(C) /\ Len(SubSeq(s, 1, n)) = n
    BY PrefixShape
  <2>2. m \in 0..n /\ m \in 0..Len(SubSeq(s, 1, n))
    BY <1>3, <2>1
  <2>3. SubSeq(SubSeq(s, 1, n), 1, m) = SubSeq(s, 1, m)
    BY <2>2, PrefixOfPrefix
  <2> QED
    BY <2>2, <2>3 DEF Prefixes
<1>4. ASSUME NEW p \in Prefixes(s)
      PROVE  p \in Seq(C) /\ Prefixes(p) \subseteq Prefixes(s)
  <2>1. PICK n \in 0..Len(s) : p = SubSeq(s, 1, n)
    BY DEF Prefixes
  <2>2. p \in Seq(C) /\ Len(p) = n
    BY <2>1, PrefixShape
  <2>3. ASSUME NEW q \in Prefixes(p) PROVE q \in Prefixes(s)
    <3>1. PICK m \in 0..Len(p) : q = SubSeq(p, 1, m)
      BY DEF Prefixes
    <3>2. m \in 0..n /\ m \in 0..Len(s)
      BY <2>2, <3>1
    <3>3. q = SubSeq(s, 1, m)
      BY <2>1, <3>1, <3>2, PrefixOfPrefix
    <3> QED
      BY <3>2, <3>3 DEF Prefixes
  <2> QED
    BY <2>2, <2>3
<1> QED
  BY <1>1, <1>2, <1>3, <1>4

LEMMA PrefixesOfRoot == Prefixes(Root) = {Root}
<1>1. Root \in Seq({}) /\ Len(Root) = 0
  BY DEF Root
<1>2. SubSeq(Root, 1, 0) = Root
  BY SubSeqEmpty DEF Root
<1>3. 0 \in 0..Len(Root) /\ \A n \in 0..Len(Root) : n = 0
  BY <1>1
<1> QED
  BY <1>2, <1>3 DEF Prefixes

\* A bounded, non-empty set of numbers has a maximum.
LEMMA MaxExists ==
  ASSUME NEW N \in Nat, NEW S \in SUBSET (0..N), S /= {}
  PROVE  Max(S) \in S /\ \A n \in S : n <= Max(S)
<1> DEFINE T == {N - n : n \in S}
           Less == OpToRel(<, Nat)
<1>1. T \subseteq Nat /\ T /= {}
  OBVIOUS
<1>2. \A i, j \in Nat : i < j => <<i, j>> \in Less
  BY DEF OpToRel
<1>3. IsWellFoundedOn(Less, Nat)
  BY NatLessThanWellFounded
<1> HIDE DEF Less, T
<1>4. \E t \in T : \A u \in T : ~(<<u, t>> \in Less)
  BY <1>1, <1>3, WFMin
<1>5. PICK t \in T : \A u \in T : t <= u
  <2>1. PICK t \in T : \A u \in T : ~(<<u, t>> \in Less)
    BY <1>4
  <2>2. ASSUME NEW u \in T PROVE t <= u
    <3>1. u \in Nat /\ t \in Nat
      BY <1>1
    <3>2. ~(u < t)
      BY <1>2, <2>1, <3>1
    <3> QED
      BY <3>1, <3>2
  <2> QED
    BY <2>2
<1>6. PICK m \in S : t = N - m
  BY DEF T
<1>7. \A n \in S : m >= n
  <2> SUFFICES ASSUME NEW n \in S PROVE m >= n
    OBVIOUS
  <2>1. N - m <= N - n
    BY <1>5, <1>6 DEF T
  <2> QED
    BY <2>1
<1>8. \E x \in S : \A y \in S : x >= y
  BY <1>7
<1>9. Max(S) \in S /\ \A y \in S : Max(S) >= y
  BY <1>8 DEF Max
<1> QED
  BY <1>9

(***************************************************************************)
(* The tree of the control registry                                        *)
(***************************************************************************)

\* A tree of nodes, each with those on the way to it.
TreeShape ==
  /\ DOMAIN controlEventHandlerLPM \subseteq Seq(Chunks)
  /\ Root \in DOMAIN controlEventHandlerLPM
  /\ \A node \in DOMAIN controlEventHandlerLPM : Prefixes(node) \subseteq DOMAIN controlEventHandlerLPM
  /\ \A node \in DOMAIN controlEventHandlerLPM :
       controlEventHandlerLPM[node] \in ControlHandlers \union {NoValue}
  /\ registered \in [Rids -> ControlHandlers \union {NoValue}]

TreeInv == TreeShape /\ TreeHoldsTheRegistered /\ TreeHasNoDeadBranch

LEMMA TreeInvInit == Init => TreeInv
<1> SUFFICES ASSUME Init PROVE TreeInv
  OBVIOUS
<1>1. /\ DOMAIN controlEventHandlerLPM = {Root} /\ controlEventHandlerLPM[Root] = NoValue
      /\ registered = [rid \in Rids |-> NoValue]
  BY DEF Init, EmptyTree
<1>2. Root \in Seq(Chunks)
  BY DEF Root
<1>3. TreeShape
  BY <1>1, <1>2, PrefixesOfRoot DEF TreeShape
<1> QED
  BY <1>1, <1>3 DEF TreeInv, TreeHoldsTheRegistered, TreeHasNoDeadBranch

\* The nodes and their prefixes.
LEMMA NodeFacts ==
  ASSUME TreeShape, NEW node \in DOMAIN controlEventHandlerLPM
  PROVE  /\ node \in Seq(Chunks) /\ node \in Prefixes(node)
         /\ \A p \in Prefixes(node) :
              p \in DOMAIN controlEventHandlerLPM /\ Prefixes(p) \subseteq Prefixes(node)
<1>1. node \in Seq(Chunks)
  BY DEF TreeShape
<1> QED
  BY <1>1, PrefixFacts DEF TreeShape

LEMMA RidFacts ==
  ASSUME NEW rid \in Rids
  PROVE  /\ rid \in Seq(Chunks) /\ rid \in Prefixes(rid) /\ Root \in Prefixes(rid)
         /\ \A p \in Prefixes(rid) : p \in Seq(Chunks) /\ Prefixes(p) \subseteq Prefixes(rid)
BY RidsAreSequences, PrefixFacts

LEMMA TreeInvAdd ==
  ASSUME TreeInv, NEW rid \in Rids, NEW h \in ControlHandlers,
         controlEventHandlerLPM' = Add(controlEventHandlerLPM, rid, h),
         registered' = [registered EXCEPT ![rid] = h]
  PROVE  TreeInv'
<1> DEFINE tree == controlEventHandlerLPM
           new == controlEventHandlerLPM'
<1>1. /\ DOMAIN new = DOMAIN tree \union Prefixes(rid)
      /\ \A node \in DOMAIN new :
           new[node] = IF node = rid THEN h ELSE IF node \in DOMAIN tree THEN tree[node] ELSE NoValue
  BY DEF Add
<1>2. /\ registered' \in [Rids -> ControlHandlers \union {NoValue}]
      /\ registered'[rid] = h
      /\ \A r \in Rids : r /= rid => registered'[r] = registered[r]
  BY DEF TreeInv, TreeShape
<1>3. h /= NoValue
  BY NoValueAssumption DEF ControlHandlers
<1>4. TreeShape'
  <2>1. DOMAIN new \subseteq Seq(Chunks) /\ Root \in DOMAIN new
    BY <1>1, RidFacts DEF TreeInv, TreeShape
  <2>2. \A node \in DOMAIN new : Prefixes(node) \subseteq DOMAIN new
    BY <1>1, RidFacts DEF TreeInv, TreeShape
  <2>3. \A node \in DOMAIN new : new[node] \in ControlHandlers \union {NoValue}
    BY <1>1 DEF TreeInv, TreeShape
  <2> QED
    BY <1>2, <2>1, <2>2, <2>3 DEF TreeShape
<1>5. TreeHoldsTheRegistered'
  <2>1. ASSUME NEW r \in Rids, registered'[r] /= NoValue
        PROVE  r \in DOMAIN new /\ new[r] = registered'[r]
    BY <1>1, <1>2, <2>1, RidFacts DEF TreeInv, TreeHoldsTheRegistered
  <2>2. ASSUME NEW node \in DOMAIN new, new[node] /= NoValue
        PROVE  node \in Rids /\ registered'[node] /= NoValue
    BY <1>1, <1>2, <1>3, <2>2 DEF TreeInv, TreeHoldsTheRegistered
  <2> QED
    BY <2>1, <2>2 DEF TreeHoldsTheRegistered
<1>6. TreeHasNoDeadBranch'
  <2> SUFFICES ASSUME NEW node \in DOMAIN new \ {Root}
               PROVE  \E r \in Rids : registered'[r] /= NoValue /\ node \in Prefixes(r)
    BY DEF TreeHasNoDeadBranch
  <2>1. CASE node \in Prefixes(rid)
    BY <1>2, <1>3, <2>1
  <2>2. CASE node \in DOMAIN tree
    BY <1>2, <1>3, <2>2 DEF TreeInv, TreeHasNoDeadBranch
  <2> QED
    BY <1>1, <2>1, <2>2
<1> QED
  BY <1>4, <1>5, <1>6 DEF TreeInv

LEMMA TreeInvDelete ==
  ASSUME TreeInv, NEW rid \in Rids,
         controlEventHandlerLPM' = Delete(controlEventHandlerLPM, rid),
         registered' = [registered EXCEPT ![rid] = NoValue]
  PROVE  TreeInv'
<1> DEFINE tree == controlEventHandlerLPM
           new == controlEventHandlerLPM'
           R == Removed(tree, rid)
<1>1. /\ registered' \in [Rids -> ControlHandlers \union {NoValue}]
      /\ registered'[rid] = NoValue
      /\ \A r \in Rids : r /= rid => registered'[r] = registered[r]
  BY DEF TreeInv, TreeShape
<1>2. CASE rid \notin DOMAIN tree
  <2>1. new = tree
    BY <1>2 DEF Delete
  <2>2. registered[rid] = NoValue
    BY <1>2 DEF TreeInv, TreeHoldsTheRegistered
  <2>3. registered' = registered
    BY <1>1, <2>2 DEF TreeInv, TreeShape
  <2> QED
    BY <2>1, <2>3 DEF TreeInv, TreeShape, TreeHoldsTheRegistered, TreeHasNoDeadBranch
<1>3. CASE rid \in DOMAIN tree
  <2>1. /\ DOMAIN new = {n \in DOMAIN tree : Prefixes(n) \intersect R = {}}
        /\ \A node \in DOMAIN new : new[node] = IF node = rid THEN NoValue ELSE tree[node]
    BY <1>3 DEF Delete, Without
  <2>2. \A p : p \in R <=>
          /\ p \in Prefixes(rid) \ {Root}
          /\ \A below \in Children(tree, p) \union {p} :
               below = rid \/ (below \in Prefixes(rid) /\ tree[below] = NoValue)
    BY DEF Removed
  <2>3. \A p : \A below \in DOMAIN tree : p \in Prefixes(below) => below \in Children(tree, p) \union {p}
    BY DEF Children
  <2>4. \A p \in DOMAIN tree : \A below \in Children(tree, p) \union {p} :
          below \in DOMAIN tree /\ p \in Prefixes(below)
    BY NodeFacts DEF Children, TreeInv
  <2> HIDE DEF R
  <2>5. TreeShape'
    <3>1. DOMAIN new \subseteq Seq(Chunks) /\ Root \in DOMAIN new
      BY <2>1, <2>2, PrefixesOfRoot DEF TreeInv, TreeShape
    <3>2. \A node \in DOMAIN new : Prefixes(node) \subseteq DOMAIN new
      BY <2>1, NodeFacts DEF TreeInv
    <3>3. \A node \in DOMAIN new : new[node] \in ControlHandlers \union {NoValue}
      BY <2>1 DEF TreeInv, TreeShape
    <3> QED
      BY <1>1, <3>1, <3>2, <3>3 DEF TreeShape
  <2>6. TreeHoldsTheRegistered'
    <3>1. ASSUME NEW r \in Rids, registered'[r] /= NoValue
          PROVE  r \in DOMAIN new /\ new[r] = registered'[r]
      <4>1. r /= rid /\ registered'[r] = registered[r]
        BY <1>1, <3>1
      <4>2. r \in DOMAIN tree /\ tree[r] = registered[r] /\ tree[r] /= NoValue
        BY <3>1, <4>1 DEF TreeInv, TreeHoldsTheRegistered
      <4>3. ASSUME NEW p \in Prefixes(r), p \in R PROVE FALSE
        BY <2>2, <2>3, <4>1, <4>2, <4>3
      <4> QED
        BY <2>1, <4>1, <4>2, <4>3
    <3>2. ASSUME NEW node \in DOMAIN new, new[node] /= NoValue
          PROVE  node \in Rids /\ registered'[node] /= NoValue
      BY <1>1, <2>1, <3>2 DEF TreeInv, TreeHoldsTheRegistered
    <3> QED
      BY <3>1, <3>2 DEF TreeHoldsTheRegistered
  <2>7. TreeHasNoDeadBranch'
    <3> SUFFICES ASSUME NEW node \in DOMAIN new \ {Root}
                 PROVE  \E r \in Rids : registered'[r] /= NoValue /\ node \in Prefixes(r)
      BY DEF TreeHasNoDeadBranch
    <3>1. node \in DOMAIN tree /\ node \notin R
      BY <2>1, NodeFacts DEF TreeInv
    <3>2. PICK r \in Rids : registered[r] /= NoValue /\ node \in Prefixes(r)
      BY <3>1 DEF TreeInv, TreeHasNoDeadBranch
    <3>3. CASE r /= rid
      BY <1>1, <3>2, <3>3
    <3>4. CASE r = rid
      <4>1. PICK below \in Children(tree, node) \union {node} :
              below /= rid /\ (below \notin Prefixes(rid) \/ tree[below] /= NoValue)
        BY <2>2, <3>1, <3>2, <3>4
      <4>2. below \in DOMAIN tree /\ node \in Prefixes(below)
        BY <2>4, <3>1, <4>1
      <4>3. CASE tree[below] /= NoValue
        BY <1>1, <4>1, <4>2, <4>3 DEF TreeInv, TreeHoldsTheRegistered
      <4>4. CASE below \notin Prefixes(rid)
        <5>1. below /= Root
          BY <4>4, RidFacts
        <5>2. PICK other \in Rids : registered[other] /= NoValue /\ below \in Prefixes(other)
          BY <4>2, <5>1 DEF TreeInv, TreeHasNoDeadBranch
        <5>3. node \in Prefixes(other)
          BY <4>2, <5>2, RidFacts
        <5>4. other /= rid
          BY <4>4, <5>2
        <5> QED
          BY <1>1, <5>2, <5>3, <5>4
      <4> QED
        BY <4>1, <4>3, <4>4
    <3> QED
      BY <3>3, <3>4
  <2> QED
    BY <2>5, <2>6, <2>7 DEF TreeInv
<1> QED
  BY <1>2, <1>3

(***************************************************************************)
(* The search                                                              *)
(***************************************************************************)

Lengths(rid) == {n \in 0..Len(rid) : SubSeq(rid, 1, n) \in DOMAIN controlEventHandlerLPM}

\* The walk ends at the deepest node on the way to the identifier.
LEMMA WalkEnds ==
  ASSUME TreeInv, NEW rid \in Seq(Chunks), NEW m, m = Max(Lengths(rid))
  PROVE  /\ m \in 0..Len(rid)
         /\ SubSeq(rid, 1, m) \in DOMAIN controlEventHandlerLPM
         /\ \A n \in 0..Len(rid) :
              SubSeq(rid, 1, n) \in DOMAIN controlEventHandlerLPM => n <= m
         /\ SearchPrefix(controlEventHandlerLPM, rid) = controlEventHandlerLPM[SubSeq(rid, 1, m)]
<1>1. Len(rid) \in Nat /\ Lengths(rid) \in SUBSET (0..Len(rid))
  BY DEF Lengths
<1>2. 0 \in Lengths(rid)
  <2>1. SubSeq(rid, 1, 0) = Root
    BY SubSeqEmpty DEF Root
  <2>2. Root \in DOMAIN controlEventHandlerLPM
    BY DEF TreeInv, TreeShape
  <2>3. 0 \in 0..Len(rid)
    BY <1>1
  <2> QED
    BY <2>1, <2>2, <2>3 DEF Lengths
<1>3. m \in Lengths(rid) /\ \A n \in Lengths(rid) : n <= m
  BY <1>1, <1>2, MaxExists
<1>4. SearchPrefix(controlEventHandlerLPM, rid) = controlEventHandlerLPM[SubSeq(rid, 1, m)]
  BY DEF SearchPrefix, Deepest, Lengths
<1> QED
  BY <1>3, <1>4 DEF Lengths

LEMMA SearchType ==
  ASSUME TreeInv, NEW rid \in Seq(Chunks)
  PROVE  SearchPrefix(controlEventHandlerLPM, rid) \in ControlHandlers \union {NoValue}
BY WalkEnds DEF TreeInv, TreeShape

LEMMA SearchIsLongest == TreeInv => SearchFindsTheLongestPrefix
<1> SUFFICES ASSUME TreeInv, NEW rid \in Rids
             PROVE  LET found == SearchPrefix(controlEventHandlerLPM, rid)
                        lengths == RegisteredPrefixLengths(rid)
                    IN IF found /= NoValue
                       THEN lengths /= {} /\ found = registered[SubSeq(rid, 1, Max(lengths))]
                       ELSE \A n \in lengths : \E other \in Rids :
                              /\ registered[other] /= NoValue
                              /\ n < Len(rid)
                              /\ SubSeq(rid, 1, n + 1) \in Prefixes(other)
  BY DEF SearchFindsTheLongestPrefix
<1> DEFINE tree == controlEventHandlerLPM
           found == SearchPrefix(tree, rid)
           lengths == RegisteredPrefixLengths(rid)
           m == Max(Lengths(rid))
           node == SubSeq(rid, 1, m)
<1>1. rid \in Seq(Chunks)
  BY RidFacts
<1>2. /\ m \in 0..Len(rid) /\ node \in DOMAIN tree /\ found = tree[node]
      /\ \A n \in 0..Len(rid) : SubSeq(rid, 1, n) \in DOMAIN tree => n <= m
  BY <1>1, WalkEnds
<1> HIDE DEF m
<1>3. \A n \in lengths :
        /\ n \in 0..Len(rid) /\ SubSeq(rid, 1, n) \in DOMAIN tree
        /\ tree[SubSeq(rid, 1, n)] /= NoValue
        /\ n <= m
  BY <1>2 DEF RegisteredPrefixLengths, TreeInv, TreeHoldsTheRegistered
<1>4. CASE found /= NoValue
  <2>1. node \in Rids /\ registered[node] /= NoValue /\ found = registered[node]
    BY <1>2, <1>4 DEF TreeInv, TreeHoldsTheRegistered
  <2>2. m \in lengths
    BY <1>2, <2>1 DEF RegisteredPrefixLengths
  <2>3. Len(rid) \in Nat /\ lengths \in SUBSET (0..Len(rid)) /\ lengths /= {}
    BY <1>1, <2>2 DEF RegisteredPrefixLengths
  <2> HIDE DEF lengths
  <2>4. Max(lengths) \in lengths /\ m <= Max(lengths)
    BY <2>2, <2>3, MaxExists
  <2>5. Max(lengths) = m
    BY <1>2, <1>3, <2>4
  <2>6. lengths /= {} /\ found = registered[SubSeq(rid, 1, Max(lengths))]
    BY <2>1, <2>3, <2>5
  <2> QED
    BY <1>4, <2>6 DEF lengths
<1>5. CASE found = NoValue
  <2>1. ASSUME NEW n \in lengths
        PROVE  \E other \in Rids :
                 /\ registered[other] /= NoValue
                 /\ n < Len(rid)
                 /\ SubSeq(rid, 1, n + 1) \in Prefixes(other)
    <3>1. n \in 0..Len(rid) /\ n < m
      <4>1. n \in 0..Len(rid) /\ n <= m /\ tree[SubSeq(rid, 1, n)] /= NoValue
        BY <1>3, <2>1
      <4>2. n /= m
        BY <1>2, <1>5, <4>1
      <4>3. Len(rid) \in Nat
        BY <1>1
      <4> QED
        BY <1>2, <4>1, <4>2, <4>3
    <3>2. node \in DOMAIN tree \ {Root}
      <4>1. Len(node) = m /\ m /= 0
        BY <1>1, <1>2, <3>1, PrefixShape
      <4> QED
        BY <1>2, <4>1 DEF Root
    <3>3. PICK other \in Rids : registered[other] /= NoValue /\ node \in Prefixes(other)
      BY <3>2 DEF TreeInv, TreeHasNoDeadBranch
    <3>4. n < Len(rid) /\ n + 1 \in 0..Len(rid) /\ n + 1 <= m
      BY <1>2, <3>1
    <3>5. SubSeq(rid, 1, n + 1) \in Prefixes(node)
      BY <1>1, <1>2, <3>4, PrefixFacts
    <3> QED
      BY <3>3, <3>4, <3>5, RidFacts
  <2> QED
    BY <1>5, <2>1
<1> QED
  BY <1>4, <1>5

(***************************************************************************)
(* The dispatch                                                            *)
(***************************************************************************)

\* What the worker has learnt of the event stays true while the registries that
\* were to take it match it.
DispatchInv ==
  /\ worker_pc /= "idle" => event.rid \in Rids
  /\ stable \subseteq Matching(event, dataHandlerMap, controlEventHandlerLPM)
  /\ worker_pc = "control" => "data" \notin stable

IInv == TypeOK /\ TreeInv /\ DispatchInv /\ RunningHandlerIsRegistered

LEMMA KeyFacts == \A rid \in Rids : DataKey[rid] \in Keys
BY DEF Keys

LEMMA IInvInit == Init => IInv
<1> SUFFICES ASSUME Init PROVE IInv
  OBVIOUS
<1>1. TypeOK
  BY DEF Init, TypeOK, EmptyTree, NoEvent, UnknownType, EventTypes
<1>2. DispatchInv /\ RunningHandlerIsRegistered
  BY DEF Init, DispatchInv, RunningHandlerIsRegistered
<1> QED
  BY <1>1, <1>2, TreeInvInit DEF IInv

\* The four calls that change a registry.
RegistryChange(caller) ==
  \E rid \in Rids :
    \/ \E h \in DataHandlers : RegisterDataEventHandler(caller, rid, h)
    \/ UnregisterDataEventHandler(caller, rid)
    \/ \E h \in ControlHandlers : RegisterControlEventHandler(caller, rid, h)
    \/ UnregisterControlEventHandler(caller, rid)

LEMMA RegistryTypes ==
  ASSUME IInv, NEW caller \in Callers, RegistryChange(caller)
  PROVE  TreeInv' /\ dataHandlerMap' \in [Keys -> DataHandlers \union {NoValue}]
<1>1. CASE UNCHANGED <<controlEventHandlerLPM, registered>>
           /\ \E rid \in Rids, h \in DataHandlers \union {NoValue} :
                dataHandlerMap' = [dataHandlerMap EXCEPT ![DataKey[rid]] = h]
  BY <1>1, KeyFacts DEF IInv, TypeOK, TreeInv, TreeShape, TreeHoldsTheRegistered, TreeHasNoDeadBranch
<1>2. ASSUME NEW rid \in Rids, NEW h \in ControlHandlers, RegisterControlEventHandler(caller, rid, h)
      PROVE  TreeInv' /\ dataHandlerMap' = dataHandlerMap
  BY <1>2, TreeInvAdd DEF IInv, RegisterControlEventHandler
<1>3. ASSUME NEW rid \in Rids, UnregisterControlEventHandler(caller, rid)
      PROVE  TreeInv' /\ dataHandlerMap' = dataHandlerMap
  BY <1>3, TreeInvDelete DEF IInv, UnregisterControlEventHandler
<1> QED
  BY <1>1, <1>2, <1>3 DEF RegistryChange, RegisterDataEventHandler, UnregisterDataEventHandler,
     IInv, TypeOK

\* A handler that runs keeps its registry locked against all others.
LEMMA RunningStays ==
  ASSUME IInv, NEW caller \in Callers, RegistryChange(caller)
  PROVE  RunningHandlerIsRegistered'
<1>1. UNCHANGED <<worker_pc, event, handler>> /\ (~self_changed' => ~self_changed /\ caller /= "worker")
  BY DEF RegistryChange, RegisterDataEventHandler, UnregisterDataEventHandler,
     RegisterControlEventHandler, UnregisterControlEventHandler, Changed, dispatch
<1>2. worker_pc = "data_handler" /\ caller /= "worker" => dataHandlerMap' = dataHandlerMap
  BY DEF RegistryChange, RegisterDataEventHandler, UnregisterDataEventHandler,
     RegisterControlEventHandler, UnregisterControlEventHandler, MayTake
<1>3. worker_pc = "control_handler" /\ caller /= "worker" =>
        controlEventHandlerLPM' = controlEventHandlerLPM
  BY DEF RegistryChange, RegisterDataEventHandler, UnregisterDataEventHandler,
     RegisterControlEventHandler, UnregisterControlEventHandler, MayTake
<1> QED
  BY <1>1, <1>2, <1>3 DEF IInv, RunningHandlerIsRegistered

LEMMA IInvRegistry ==
  ASSUME IInv, NEW caller \in Callers, RegistryChange(caller)
  PROVE  IInv'
<1>1. TreeInv' /\ dataHandlerMap' \in [Keys -> DataHandlers \union {NoValue}]
  BY RegistryTypes
<1>2. Changed(caller)
  BY DEF RegistryChange, RegisterDataEventHandler, UnregisterDataEventHandler,
     RegisterControlEventHandler, UnregisterControlEventHandler
<1>3. TypeOK'
  <2>1. UNCHANGED <<worker_pc, event, handler>> /\ stable' \subseteq stable
    BY <1>2 DEF Changed, dispatch
  <2>2. self_changed' \in BOOLEAN
    BY <1>2 DEF Changed
  <2> QED
    BY <1>1, <2>1, <2>2 DEF IInv, TypeOK, TreeInv, TreeShape
<1>4. DispatchInv'
  BY <1>2 DEF IInv, DispatchInv, Changed, dispatch
<1> QED
  BY <1>1, <1>3, <1>4, RunningStays DEF IInv

\* The worker's steps leave the registries alone.
LEMMA TreeInvStays ==
  ASSUME TreeInv, UNCHANGED registries
  PROVE  TreeInv'
BY DEF TreeInv, registries, TreeShape, TreeHoldsTheRegistered, TreeHasNoDeadBranch

LEMMA IInvEventReceived ==
  ASSUME IInv, NEW type \in EventTypes, NEW rid \in Rids, EventReceived([type |-> type, rid |-> rid])
  PROVE  IInv'
<1> DEFINE e == [type |-> type, rid |-> rid]
<1>1. /\ event' = e /\ worker_pc' = IF type = DataType THEN "data" ELSE "control"
      /\ stable' = Matching(e, dataHandlerMap, controlEventHandlerLPM)
      /\ UNCHANGED registries /\ UNCHANGED <<handler, self_changed>> /\ worker_pc = "idle"
  BY DEF EventReceived
<1>2. TypeOK'
  BY <1>1 DEF IInv, TypeOK, registries, Matching
<1>3. DispatchInv'
  BY <1>1 DEF DispatchInv, registries, Matching
<1>4. RunningHandlerIsRegistered'
  BY <1>1 DEF RunningHandlerIsRegistered
<1> QED
  BY <1>1, <1>2, <1>3, <1>4, TreeInvStays DEF IInv

\* The worker goes on to a stage that the registries allow.
LEMMA IInvGoTo ==
  ASSUME IInv, NEW stage \in {"idle", "data", "data_handler", "control", "control_handler"},
         NEW h \in Handlers \union {NoValue}, GoTo(stage, h),
         stage /= "idle" => worker_pc /= "idle",
         h /= NoValue <=> stage \in {"data_handler", "control_handler"},
         stage = "control" => "data" \notin stable,
         stage = "data_handler" => h = dataHandlerMap[DataKey[event.rid]],
         stage = "control_handler" => h = SearchPrefix(controlEventHandlerLPM, event.rid)
  PROVE  IInv'
<1>1. worker_pc' = stage /\ handler' = h /\ self_changed' = FALSE /\ UNCHANGED registries
  BY DEF GoTo
<1>2. event' = (IF stage = "idle" THEN NoEvent ELSE event)
      /\ stable' = (IF stage = "idle" THEN {} ELSE stable)
  BY DEF GoTo
<1>3. TypeOK'
  BY <1>1, <1>2 DEF IInv, TypeOK, registries, NoEvent, UnknownType, EventTypes
<1>4. DispatchInv'
  BY <1>1, <1>2 DEF IInv, DispatchInv, registries
<1>5. RunningHandlerIsRegistered'
  BY <1>1, <1>2 DEF RunningHandlerIsRegistered, registries
<1> QED
  BY <1>1, <1>3, <1>4, <1>5, TreeInvStays DEF IInv

LEMMA IInvLookupData == ASSUME IInv, LookupData PROVE IInv'
<1> DEFINE h == dataHandlerMap[DataKey[event.rid]]
<1>1. worker_pc = "data" /\ GoTo(IF h = NoValue THEN "control" ELSE "data_handler", h)
  BY DEF LookupData
<1>2. h \in DataHandlers \union {NoValue}
  BY <1>1, KeyFacts DEF IInv, DispatchInv, TypeOK
<1>3. h = NoValue => "data" \notin stable
  BY DEF IInv, DispatchInv, Matching
<1> QED
  BY <1>1, <1>2, <1>3, IInvGoTo DEF Handlers

\* The identifier of the event at hand is a sequence.
LEMMA EventRid == ASSUME IInv PROVE event.rid \in Seq(Chunks)
<1>1. event.rid \in Rids \union {Root}
  BY DEF IInv, TypeOK
<1>2. Root \in Seq(Chunks)
  BY DEF Root
<1>3. \A rid \in Rids : rid \in Seq(Chunks)
  BY RidFacts
<1> QED
  BY <1>1, <1>2, <1>3

LEMMA IInvLookupControl == ASSUME IInv, LookupControl PROVE IInv'
<1> DEFINE h == SearchPrefix(controlEventHandlerLPM, event.rid)
<1>1. h \in ControlHandlers \union {NoValue}
  BY EventRid, SearchType DEF IInv
<1>2. CASE h = NoValue \/ event.type = UnknownType
  <2>1. GoTo("idle", NoValue)
    BY <1>2 DEF LookupControl
  <2> QED
    BY <2>1, IInvGoTo
<1>3. CASE ~(h = NoValue \/ event.type = UnknownType)
  <2>1. worker_pc = "control" /\ GoTo("control_handler", h) /\ h /= NoValue
    BY <1>3 DEF LookupControl
  <2> QED
    BY <1>1, <2>1, IInvGoTo DEF Handlers
<1> QED
  BY <1>2, <1>3

LEMMA IInvHandlerReturns == ASSUME IInv, HandlerReturns PROVE IInv'
BY IInvGoTo DEF HandlerReturns

LEMMA IInvNext == IInv /\ [Next]_vars => IInv'
<1> SUFFICES ASSUME IInv, [Next]_vars PROVE IInv'
  OBVIOUS
<1>1. ASSUME NEW caller \in Callers, RegistryChange(caller) PROVE IInv'
  BY <1>1, IInvRegistry
<1>2. ASSUME NEW type \in EventTypes, NEW rid \in Rids, EventReceived([type |-> type, rid |-> rid])
      PROVE  IInv'
  BY <1>2, IInvEventReceived
<1>3. CASE LookupData
  BY <1>3, IInvLookupData
<1>4. CASE LookupControl
  BY <1>4, IInvLookupControl
<1>5. CASE HandlerReturns
  BY <1>5, IInvHandlerReturns
<1>6. CASE UNCHANGED vars
  BY <1>6, TreeInvStays DEF vars, registries, dispatch, IInv, TypeOK, DispatchInv,
     RunningHandlerIsRegistered
<1> QED
  BY <1>1, <1>2, <1>3, <1>4, <1>5, <1>6 DEF Next, RegistryChange

LEMMA IInvHolds == Spec => []IInv
BY IInvInit, IInvNext, PTL DEF Spec

(***************************************************************************)
(* The theorems                                                            *)
(***************************************************************************)

\* Every variable keeps its type, and a handler is at hand exactly while one runs.
THEOREM ClassifierTypeCorrect == Spec => []TypeOK
<1>1. IInv => TypeOK
  BY DEF IInv
<1> QED
  BY <1>1, IInvHolds, PTL

\* After any sequence of add and delete, on any identifiers, the tree holds
\* what is registered and nothing else.
THEOREM TreeHoldsWhatIsRegistered == Spec => []TreeHoldsTheRegistered
<1>1. IInv => TreeHoldsTheRegistered
  BY DEF IInv, TreeInv
<1> QED
  BY <1>1, IInvHolds, PTL

\* The pruning of delete leaves no node that leads nowhere.
THEOREM NoDeadBranch == Spec => []TreeHasNoDeadBranch
<1>1. IInv => TreeHasNoDeadBranch
  BY DEF IInv, TreeInv
<1> QED
  BY <1>1, IInvHolds, PTL

\* searchPrefix answers with the longest registered prefix, or with nothing, when
\* another identifier has led it astray.
THEOREM LongestPrefixIsFound == Spec => []SearchFindsTheLongestPrefix
<1>1. IInv => SearchFindsTheLongestPrefix
  BY SearchIsLongest DEF IInv
<1> QED
  BY <1>1, IInvHolds, PTL

\* A handler that has been unregistered by another thread does not run.
THEOREM HandlerIsRegistered == Spec => []RunningHandlerIsRegistered
<1>1. IInv => RunningHandlerIsRegistered
  BY DEF IInv
<1> QED
  BY <1>1, IInvHolds, PTL

\* The event of an undisturbed registry is neither dropped nor handed to the
\* wrong one.
THEOREM StableHandlersGetEvents == Spec => StableHandlerGetsTheEvent
<1> DEFINE Step ==
      /\ worker_pc = "control" => "data" \notin stable
      /\ worker_pc \in {"data", "control"} /\ worker_pc' = "idle" =>
           stable = {} \/ event.type = UnknownType
<1>1. IInv /\ [Next]_vars => [Step]_vars
  <2> SUFFICES ASSUME IInv, Next PROVE Step
    OBVIOUS
  <2>1. worker_pc = "control" => "data" \notin stable
    BY DEF IInv, DispatchInv
  <2>2. ASSUME worker_pc \in {"data", "control"}, worker_pc' = "idle"
        PROVE  stable = {} \/ event.type = UnknownType
    <3>1. LookupControl
      BY <2>2 DEF Next, RegisterDataEventHandler, UnregisterDataEventHandler,
         RegisterControlEventHandler, UnregisterControlEventHandler, Changed, dispatch,
         EventReceived, LookupData, HandlerReturns, GoTo
    <3>2. CASE SearchPrefix(controlEventHandlerLPM, event.rid) = NoValue
      BY <2>1, <3>1, <3>2 DEF LookupControl, IInv, DispatchInv, Matching
    <3>3. CASE event.type = UnknownType
      BY <3>3
    <3>4. CASE SearchPrefix(controlEventHandlerLPM, event.rid) /= NoValue /\ event.type /= UnknownType
      BY <2>2, <3>1, <3>4 DEF LookupControl, GoTo
    <3> QED
      BY <3>2, <3>3, <3>4
  <2> QED
    BY <2>1, <2>2
<1> QED
  BY <1>1, IInvHolds, PTL DEF Spec, StableHandlerGetsTheEvent

(***************************************************************************)
(* The tree is a function of what is registered                            *)
(***************************************************************************)

\* The identifiers with a handler, and the tree they make up.
RegisteredRids == {rid \in Rids : registered[rid] /= NoValue}

TreeOfRegistered ==
  [node \in {Root} \union UNION {Prefixes(rid) : rid \in RegisteredRids} |->
    IF node \in RegisteredRids THEN registered[node] ELSE NoValue]

LEMMA TreeIsAFunction ==
  Spec => [](controlEventHandlerLPM =
               [node \in DOMAIN controlEventHandlerLPM |-> controlEventHandlerLPM[node]])
<1> DEFINE F == controlEventHandlerLPM =
                  [node \in DOMAIN controlEventHandlerLPM |-> controlEventHandlerLPM[node]]
<1>1. Init => F
  BY DEF Init, EmptyTree
<1>2. F /\ [Next]_vars => F'
  <2> SUFFICES ASSUME F, [Next]_vars PROVE F'
    OBVIOUS
  <2>1. CASE UNCHANGED controlEventHandlerLPM
    BY <2>1
  <2>2. ASSUME NEW rid \in Rids, NEW h \in ControlHandlers,
               controlEventHandlerLPM' = Add(controlEventHandlerLPM, rid, h)
        PROVE  F'
    BY <2>2 DEF Add
  <2>3. ASSUME NEW rid \in Rids, controlEventHandlerLPM' = Delete(controlEventHandlerLPM, rid)
        PROVE  F'
    BY <2>3 DEF Delete, Without
  <2> HIDE DEF F
  <2> QED
    BY <2>1, <2>2, <2>3 DEF Next, vars, registries, RegisterDataEventHandler,
       UnregisterDataEventHandler, RegisterControlEventHandler, UnregisterControlEventHandler,
       EventReceived, LookupData, LookupControl, HandlerReturns, GoTo
<1> QED
  BY <1>1, <1>2, PTL DEF Spec

\* However handlers were registered, replaced and unregistered, above, below and
\* beside each other: the tree is the one that adding what is registered now to
\* an empty tree would build, node for node.  No order of calls leaves a trace.
THEOREM TreeForgetsItsHistory == Spec => [](controlEventHandlerLPM = TreeOfRegistered)
<1> DEFINE tree == controlEventHandlerLPM
<1>1. ASSUME TreeInv, tree = [node \in DOMAIN tree |-> tree[node]]
      PROVE  tree = TreeOfRegistered
  <2>1. DOMAIN tree \subseteq {Root} \union UNION {Prefixes(rid) : rid \in RegisteredRids}
    BY <1>1 DEF TreeInv, TreeHasNoDeadBranch, RegisteredRids
  <2>2. {Root} \union UNION {Prefixes(rid) : rid \in RegisteredRids} \subseteq DOMAIN tree
    BY <1>1 DEF TreeInv, TreeShape, TreeHoldsTheRegistered, RegisteredRids
  <2>3. DOMAIN tree = {Root} \union UNION {Prefixes(rid) : rid \in RegisteredRids}
    BY <2>1, <2>2
  <2>4. \A node \in DOMAIN tree :
          tree[node] = IF node \in RegisteredRids THEN registered[node] ELSE NoValue
    BY <1>1 DEF TreeInv, TreeHoldsTheRegistered, RegisteredRids
  <2> HIDE DEF tree
  <2> QED
    BY <1>1, <2>3, <2>4 DEF TreeOfRegistered
<1>2. IInv => TreeInv
  BY DEF IInv
<1> QED
  BY <1>1, <1>2, IInvHolds, TreeIsAFunction, PTL
=============================================================================
