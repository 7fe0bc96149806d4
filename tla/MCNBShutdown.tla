---------------------------- MODULE MCNBShutdown ----------------------------
(***************************************************************************)
(* Small instances of NBShutdown for TLC.                                  *)
(***************************************************************************)
EXTENDS NBShutdown

CONSTANTS
  Publishers,       \* application threads that publish
  ClientRequests    \* requests of each of them

MCMaxRequests == [t \in Threads |-> IF t \in Publishers THEN ClientRequests ELSE 0]
=============================================================================
