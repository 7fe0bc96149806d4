----------------------------- MODULE MCBAEvents -----------------------------
(***************************************************************************)
(* A small instance of BAEvents for TLC.                                   *)
(***************************************************************************)
EXTENDS BAEvents, TLC

ConsumerSymmetry == Permutations(Consumers)
=============================================================================
