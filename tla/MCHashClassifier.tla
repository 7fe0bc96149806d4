-------------------------- MODULE MCHashClassifier --------------------------
(***************************************************************************)
(* A small instance of HashClassifier for TLC: identifiers above, below    *)
(* and beside each other, two of which have the same hash.                 *)
(***************************************************************************)
EXTENDS HashClassifier

CONSTANTS a, b, c

\* <<>> is a prefix shorter than a chunk: it matches everything.
MCRids == {<<>>, <<a>>, <<a, b, b>>, <<a, b, c>>}

\* <<a, b, b>> and <<a, b, c>> collide in the HashMap of the data handlers.
MCDataKey == [rid \in MCRids |-> Len(rid)]
=============================================================================
