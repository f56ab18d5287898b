----------------------------- MODULE LossyQueue -----------------------------
(***************************************************************************)
(* What the interrupt queue promises: a bounded first-in first-out queue   *)
(* that hands every message it accepted to the consumer exactly once and   *)
(* in order, and that refuses a message only when it holds Capacity of     *)
(* them.  Module KernelLoop is shown to implement this specification.      *)
(***************************************************************************)
EXTENDS Naturals, Sequences

CONSTANTS Msg, Capacity

VARIABLES
  queue,      \* the messages that wait
  delivered,  \* the messages the consumer has taken, in that order
  refused     \* the messages that found the queue full

Init ==
  /\ queue = <<>>
  /\ delivered = <<>>
  /\ refused = <<>>

Push(m) ==
  /\ Len(queue) < Capacity
  /\ queue' = Append(queue, m)
  /\ UNCHANGED <<delivered, refused>>

Refuse(m) ==
  /\ Len(queue) = Capacity
  /\ refused' = Append(refused, m)
  /\ UNCHANGED <<queue, delivered>>

Pop ==
  /\ queue # <<>>
  /\ delivered' = Append(delivered, Head(queue))
  /\ queue' = Tail(queue)
  /\ UNCHANGED refused

Next == Pop \/ \E m \in Msg : Push(m) \/ Refuse(m)

Spec == Init /\ [][Next]_<<queue, delivered, refused>>
=============================================================================
