---------------------------- MODULE RingBufferOut ----------------------------
(***************************************************************************)
(* RingBufferOutBase: any thread of the client calls sendEvent(), the      *)
(* frontend reads the events out of the shared page (the test's            *)
(* receiveEvent(), which a notification wakes).                            *)
(*                                                                         *)
(* sendEvent() stores the event, then in_prod, and has its xen_wmb() only  *)
(* after both.  On x86 the stores reach the frontend in program order; on  *)
(* Arm, which Xen also runs on, either may come first.  Reorder says       *)
(* which.                                                                  *)
(***************************************************************************)
EXTENDS Integers, Sequences, SequencesExt

CONSTANTS
  Senders,      \* threads that call sendEvent()
  NumEvents,    \* mNumEvents
  IndexMod,     \* in_prod and in_cons count modulo this (2^32)
  StartIndex,   \* in_cons when the backend maps the page
  MaxEvents,    \* bound: calls of sendEvent()
  Reorder       \* the two stores may become visible in either order

\* The cast of sendEvent() to int takes half of the range for negative: a
\* buffer as large as that would never be full.
ASSUME EventAssumption ==
  /\ NumEvents \in Nat \ {0} /\ IndexMod \in Nat /\ NumEvents < IndexMod \div 2
  /\ StartIndex \in 0..IndexMod - 1
  /\ MaxEvents \in Nat /\ Reorder \in BOOLEAN
  /\ "none" \notin Senders /\ "frontend" \notin Senders

VARIABLES
  inProd, inCons, mEventBuffer,   \* the shared page
  stores,                         \* per sender, its stores not yet visible
  calls,                          \* calls of sendEvent() so far: event n is the n-th
  event,                          \* the argument, per sender
  mMutex,                         \* "none" or the sender that holds it
  pending,                        \* the event channel to the frontend
  copied,                         \* the event the frontend copied last
  pc                              \* of the senders and of "frontend"

page == <<inProd, inCons, mEventBuffer>>
vars == <<page, stores, calls, event, mMutex, pending, copied, pc>>

Index == 0..IndexMod - 1
Goto(t, l) == pc' = [pc EXCEPT ![t] = l]

\* static_cast<int>(in_prod - in_cons)
Used == LET d == (inProd - inCons + IndexMod) % IndexMod
        IN  IF d >= IndexMod \div 2 THEN d - IndexMod ELSE d
-----------------------------------------------------------------------------
(* sendEvent() *)

Call(s) ==
  /\ pc[s] = "idle"
  /\ calls < MaxEvents
  /\ calls' = calls + 1
  /\ event' = [event EXCEPT ![s] = calls + 1]
  /\ Goto(s, "lock")
  /\ UNCHANGED <<page, stores, mMutex, pending, copied>>

\* Mutant: no lock
LockFree(s) ==
  /\ pc[s] = "lock"
  /\ mMutex' = s
  /\ Goto(s, "check")
  /\ UNCHANGED <<page, stores, calls, event, pending, copied>>

Lock(s) ==
  /\ pc[s] = "lock"
  /\ mMutex = "none"
  /\ mMutex' = s
  /\ Goto(s, "check")
  /\ UNCHANGED <<page, stores, calls, event, pending, copied>>

\* The stores sendEvent() makes to the page, in program order
Stores(s) == <<[to |-> "buffer", at |-> inProd % NumEvents, value |-> event[s]],
               [to |-> "in_prod", value |-> (inProd + 1) % IndexMod]>>

Send(s, full) ==
  /\ pc[s] = "check"
  /\ IF full
       THEN Goto(s, "idle") /\ mMutex' = "none" /\ UNCHANGED stores
       ELSE Goto(s, "wmb") /\ stores' = [stores EXCEPT ![s] = Stores(s)] /\ UNCHANGED mMutex
  /\ UNCHANGED <<page, calls, event, pending, copied>>

\* Mutant: one event too many
CheckOverflowLate(s) == Send(s, Used > NumEvents)

\* A full buffer drops the event.
CheckOverflow(s) == Send(s, Used >= NumEvents)

\* A store reaches the page: the older of the two unless the machine reorders.
StoreVisible(s) ==
  /\ \E i \in DOMAIN stores[s] :
       /\ i = 1 \/ Reorder
       /\ LET store == stores[s][i]
          IN  IF store.to = "buffer"
                THEN /\ mEventBuffer' = [mEventBuffer EXCEPT ![store.at] = store.value]
                     /\ UNCHANGED inProd
                ELSE inProd' = store.value /\ UNCHANGED mEventBuffer
       /\ stores' = [stores EXCEPT ![s] = RemoveAt(@, i)]
  /\ UNCHANGED <<inCons, calls, event, mMutex, pending, copied, pc>>

\* xen_wmb() lets the thread go on when both are visible.
Notify(s) ==
  /\ pc[s] = "wmb"
  /\ stores[s] = <<>>
  /\ pending' = TRUE
  /\ mMutex' = "none"
  /\ Goto(s, "idle")
  /\ UNCHANGED <<page, stores, calls, event, copied>>

SendEvent(s) == Lock(s) \/ CheckOverflow(s) \/ StoreVisible(s) \/ Notify(s)
-----------------------------------------------------------------------------
(* The frontend *)

Woken ==
  /\ pc["frontend"] = "wait"
  /\ pending
  /\ pending' = FALSE
  /\ Goto("frontend", "read")
  /\ UNCHANGED <<page, stores, calls, event, mMutex, copied>>

\* The event is copied, then in_cons gives its place away.
CopyEvent ==
  /\ pc["frontend"] = "read"
  /\ IF inProd = inCons
       THEN Goto("frontend", "wait") /\ UNCHANGED copied
       ELSE Goto("frontend", "advance") /\ copied' = mEventBuffer[inCons % NumEvents]
  /\ UNCHANGED <<page, stores, calls, event, mMutex, pending>>

Advance ==
  /\ pc["frontend"] = "advance"
  /\ inCons' = (inCons + 1) % IndexMod
  /\ Goto("frontend", "read")
  /\ UNCHANGED <<inProd, mEventBuffer, stores, calls, event, mMutex, pending, copied>>

Frontend == Woken \/ CopyEvent \/ Advance
-----------------------------------------------------------------------------
\* The constructor drops what the page holds: in_prod = in_cons.
Init ==
  /\ inCons = StartIndex /\ inProd = inCons
  /\ mEventBuffer = [i \in 0..NumEvents - 1 |-> 0]
  /\ stores = [s \in Senders |-> <<>>]
  /\ calls = 0 /\ event = [s \in Senders |-> 0]
  /\ mMutex = "none" /\ pending = FALSE /\ copied = 0
  /\ pc = [t \in Senders \union {"frontend"} |-> IF t = "frontend" THEN "wait" ELSE "idle"]

\* Every event was sent or dropped, and received.
Quiet == /\ calls = MaxEvents /\ pc["frontend"] = "wait" /\ inProd = inCons
         /\ \A s \in Senders : pc[s] = "idle"

Next == \/ \E s \in Senders : Call(s) \/ SendEvent(s)
        \/ Frontend
        \/ Quiet /\ UNCHANGED vars

Spec == Init /\ [][Next]_vars

\* Every thread is scheduled, and so is the frontend.
FairSpec == Spec /\ WF_vars(Frontend) /\ \A s \in Senders : WF_vars(SendEvent(s))
-----------------------------------------------------------------------------
(* Properties *)

\* Every variable has its type.
TypeOK ==
  /\ inProd \in Index /\ inCons \in Index
  /\ mEventBuffer \in [0..NumEvents - 1 -> 0..MaxEvents]
  /\ calls \in 0..MaxEvents /\ event \in [Senders -> 0..MaxEvents] /\ copied \in 0..MaxEvents
  /\ mMutex \in Senders \union {"none"} /\ pending \in BOOLEAN
  /\ Used \in 0..NumEvents

\* The queue as the frontend sees it: what it has copied is no longer there.
Unread == IF pc["frontend"] = "advance" THEN inCons + 1 ELSE inCons
Queue  == [k \in 1..(inProd - Unread + IndexMod) % IndexMod |->
             mEventBuffer[((Unread + k - 1) % IndexMod) % NumEvents]]

\* The page is an EventQueue to the frontend: an event it can see is complete
\* and stays what it is until it is received; all are received, in order.
EventsArrive == INSTANCE EventQueue WITH Capacity <- NumEvents, Events <- 1..MaxEvents,
                  queue <- Queue, got <- copied
ImplementsQueue == EventsArrive!Spec

\* Test "RingBufferOut", with one sender: the frontend receives the events in
\* the order they were sent, never what an older one left in the slot nor what
\* a newer one put there too early.
NoStaleEvent == [][copied' # copied => copied' > copied]_vars
=============================================================================
