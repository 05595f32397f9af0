--------------------------- MODULE RequestChannel ---------------------------
(***************************************************************************)
(* What RingBufferInBase promises the two ends: a request that the         *)
(* frontend has posted is handed to processRequest() once and in order,    *)
(* its response reaches the frontend once and intact, and neither waits    *)
(* for a notification that does not come.  No indices, no event channel.   *)
(***************************************************************************)
EXTENDS Naturals, Sequences, FiniteSets

CONSTANT Capacity     \* entries of the ring

VARIABLES
  posted,   \* how many requests the frontend has posted: they are 1, 2, ...
  reqs,     \* posted and not yet taken by the backend, in order
  taken,    \* taken and not yet answered
  rsps      \* answered and not yet received by the frontend, in order

vars == <<posted, reqs, taken, rsps>>

Request(n)  == [kind |-> "req", id |-> n]
Response(n) == [kind |-> "rsp", id |-> n]

Init == posted = 0 /\ reqs = <<>> /\ taken = {} /\ rsps = <<>>

\* The frontend posts a batch.
Post ==
  \E n \in 1..Capacity :
    /\ Len(reqs) + n + Cardinality(taken) + Len(rsps) <= Capacity
    /\ reqs' = reqs \o [i \in 1..n |-> Request(posted + i)]
    /\ posted' = posted + n
    /\ UNCHANGED <<taken, rsps>>

Take ==
  /\ reqs # <<>>
  /\ Head(reqs).kind = "req"
  /\ taken' = taken \union {Head(reqs).id}
  /\ reqs' = Tail(reqs)
  /\ UNCHANGED <<posted, rsps>>

Answer ==
  \E n \in taken :
    /\ rsps' = Append(rsps, Response(n))
    /\ taken' = taken \ {n}
    /\ UNCHANGED <<posted, reqs>>

Receive ==
  /\ rsps # <<>>
  /\ rsps' = Tail(rsps)
  /\ UNCHANGED <<posted, reqs, taken>>

Next == Post \/ Take \/ Answer \/ Receive

Spec == Init /\ [][Next]_vars

FairSpec == Spec /\ WF_vars(Take) /\ WF_vars(Answer) /\ WF_vars(Receive)
=============================================================================
