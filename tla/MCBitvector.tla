---------------------------- MODULE MCBitvector ----------------------------
(***************************************************************************)
(* A small instance of Bitvector for TLC.                                  *)
(***************************************************************************)
EXTENDS Bitvector

\* A string of one or two characters leaves bits of the first two words as they
\* were, one of three only words nobody looks at.
MCClearedBits == [n \in Sizes |-> IF n > 3 THEN n * WordBits ELSE (3 * n) \div 2]

\* The properties say nothing of an object used without care: such states are
\* checked, but what follows them is left out.
Careful == sound = {"x", "y"}
=============================================================================
