--------------------------- MODULE MCNBBlackadder ---------------------------
(***************************************************************************)
(* Small instances of NBBlackadder for TLC: how many requests each thread  *)
(* issues, and the symmetry of the application threads.                    *)
(***************************************************************************)
EXTENDS NBBlackadder, TLC

CONSTANTS
  ClientRequests,   \* requests of each application thread
  WorkerRequests    \* requests issued from the callback

MCMaxRequests == [t \in Threads |-> IF t = Worker THEN WorkerRequests ELSE ClientRequests]

ClientSymmetry == Permutations(Clients)
=============================================================================
