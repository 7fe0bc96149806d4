------------------------------ MODULE LPMTree ------------------------------
(***************************************************************************)
(* The prefix tree of LPMTree.java, as operators on the tree.              *)
(*                                                                         *)
(* A node is identified with the path that leads to it: the sequence of    *)
(* the chunks of scopeIdLen bytes an identifier consists of.  Children are *)
(* kept under Arrays.hashCode of their chunk (lines 219 and 243), so two   *)
(* chunks with the same hash are one chunk to the tree, and a chunk is its *)
(* hash here.  The tree is the function from its nodes to their values;    *)
(* the root is <<>>.                                                       *)
(***************************************************************************)
EXTENDS Naturals, Sequences, FiniteSetsExt

CONSTANTS
  Values,    \* the values an application stores
  NoValue    \* null

ASSUME NoValueAssumption == NoValue \notin Values

Root == <<>>

Prefixes(path) == {SubSeq(path, 1, n) : n \in 0..Len(path)}

EmptyTree == [node \in {Root} |-> NoValue]

\* The nodes missing on the way to the identifier are created without a value;
\* the last node gets the value.
Add(tree, path, value) ==
  [node \in DOMAIN tree \union Prefixes(path) |->
    IF node = path THEN value
    ELSE IF node \in DOMAIN tree THEN tree[node]
    ELSE NoValue]

Children(tree, path) == {node \in DOMAIN tree : node /= path /\ path \in Prefixes(node)}

\* Fault: the loop stops at the identifier's own node (line 73).
RemovedLeafOnly(tree, path) ==
  {node \in {path} \ {Root} : Children(tree, node) = {}}

\* Fault: isValid (line 215) looks at the value only.
RemovedWithoutValue(tree, path) ==
  {node \in Prefixes(path) \ {Root} : node = path \/ tree[node] = NoValue}

\* From the identifier's node upwards, a node goes when it has no value and its
\* only child, if it has any, has gone before it.  The root stays.
Removed(tree, path) ==
  {node \in Prefixes(path) \ {Root} :
    \A below \in Children(tree, node) \union {node} :
      below = path \/ (below \in Prefixes(path) /\ tree[below] = NoValue)}

\* Removing a node takes everything below it along.
Without(tree, nodes) ==
  [node \in {n \in DOMAIN tree : Prefixes(n) \intersect nodes = {}} |-> tree[node]]

\* delete returns false, with nothing done, when there is no such node.
Delete(tree, path) ==
  IF path \in DOMAIN tree
  THEN Without([tree EXCEPT ![path] = NoValue], Removed(tree, path))
  ELSE tree

\* Fault: the last chunk is not looked up (ptr < chunks.length - 1).
DeepestButLast(tree, path) ==
  SubSeq(path, 1,
         Max({n \in 0..Len(path) : (n < Len(path) \/ n = 0) /\ SubSeq(path, 1, n) \in DOMAIN tree}))

\* The node where the walk along the identifier ends.
Deepest(tree, path) ==
  SubSeq(path, 1, Max({n \in 0..Len(path) : SubSeq(path, 1, n) \in DOMAIN tree}))

\* searchPrefix returns the value of that node, which may be none.
SearchPrefix(tree, path) == tree[Deepest(tree, path)]
=============================================================================
