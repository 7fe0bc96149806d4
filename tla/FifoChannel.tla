---------------------------- MODULE FifoChannel ----------------------------
(***************************************************************************)
(* What a queue between two threads promises, whatever it is built from:   *)
(* messages are delivered in the order they were accepted, each of them at *)
(* most once, and nothing is delivered that was not accepted.  NBBlackadder *)
(* implements it twice: for the requests on their way to the node and for  *)
(* the events on their way to the application's callback.                  *)
(***************************************************************************)
EXTENDS Naturals, Sequences

CONSTANT Messages

VARIABLES
  accepted,   \* every message accepted so far, in order
  delivered   \* every message delivered so far, in order

vars == <<accepted, delivered>>

TypeOK ==
  /\ accepted \in Seq(Messages)
  /\ delivered \in Seq(Messages)

Init ==
  /\ accepted = <<>>
  /\ delivered = <<>>

Submit ==
  /\ \E m \in Messages : accepted' = Append(accepted, m)
  /\ UNCHANGED delivered

Deliver ==
  /\ Len(delivered) < Len(accepted)
  /\ delivered' = Append(delivered, accepted[Len(delivered) + 1])
  /\ UNCHANGED accepted

Next == Submit \/ Deliver

Spec == Init /\ [][Next]_vars
=============================================================================
