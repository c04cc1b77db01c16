-------------------------------- MODULE Fifo --------------------------------
(***************************************************************************)
(* What a queue between threads promises: whatever is sent is received at  *)
(* most once, in the order it was sent, and nothing else is received.      *)
(* AtomicQueue implements it with a spin lock, and the input manager as a  *)
(* whole implements it between the keyboard and the main loop.             *)
(***************************************************************************)
EXTENDS Naturals, Sequences

CONSTANT Items
VARIABLES sent, received

Init == sent = <<>> /\ received = <<>>

Send == \E x \in Items : sent' = Append(sent, x) /\ UNCHANGED received

Receive ==
  /\ Len(received) < Len(sent)
  /\ received' = Append(received, sent[Len(received) + 1])
  /\ UNCHANGED sent

Next == Send \/ Receive

Spec == Init /\ [][Next]_<<sent, received>>
=============================================================================
