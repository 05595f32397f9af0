----------------------------- MODULE EventQueue -----------------------------
(***************************************************************************)
(* What RingBufferOutBase promises: a bounded queue of events.  sendEvent() *)
(* appends one or, with the queue full, drops it; the frontend receives    *)
(* what was appended, in order and intact, and all of it.                  *)
(***************************************************************************)
EXTENDS Naturals, Sequences

CONSTANTS
  Capacity,
  Events     \* what may be sent

VARIABLES
  queue,   \* the events sent and not received
  got      \* the event received last

vars == <<queue, got>>

Init == queue = <<>> /\ got = 0

Send(e) == Len(queue) < Capacity /\ queue' = Append(queue, e) /\ UNCHANGED got

Receive == queue # <<>> /\ got' = Head(queue) /\ queue' = Tail(queue)

Next == Receive \/ \E e \in Events : Send(e)

Safety == Init /\ [][Next]_vars

Spec == Safety /\ WF_vars(Receive)
=============================================================================
