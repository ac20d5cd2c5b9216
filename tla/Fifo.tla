-------------------------------- MODULE Fifo --------------------------------
(***************************************************************************)
(* What a CommandTransport of rt/contract.zig promises its two ends: the   *)
(* commands of successful sends come out of receive once each, in the      *)
(* order in which the sends took effect, and nothing else comes out.       *)
(***************************************************************************)
EXTENDS Sequences

CONSTANT Command

VARIABLES
  pending,    \* commands sent and not yet received
  received    \* commands received so far

Init == pending = <<>> /\ received = <<>>

Send == \E c \in Command : pending' = Append(pending, c) /\ UNCHANGED received

Receive ==
  /\ pending # <<>>
  /\ pending' = Tail(pending)
  /\ received' = Append(received, Head(pending))

Next == Send \/ Receive

Spec == Init /\ [][Next]_<<pending, received>>
=============================================================================
