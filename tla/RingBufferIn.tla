---------------------------- MODULE RingBufferIn ----------------------------
(***************************************************************************)
(* RingBufferInBase: requests of the frontend come through a shared page   *)
(* and an event channel, processRequest() handles them, sendResponse()     *)
(* puts the responses into the slots of the requests it has consumed.      *)
(*                                                                         *)
(* The event thread of the ring is one process; a client that answers      *)
(* later does so from a worker thread of its own, as only one thread may   *)
(* call sendResponse(), which takes no lock.  The frontend's two halves    *)
(* follow the tests (sendReq(), receiveResp()) and the macros of Xen's     *)
(* ring.h, which both ends use and which have a memory barrier wherever    *)
(* the order of two accesses to the page matters: an access is a step.     *)
(***************************************************************************)
EXTENDS Naturals, Sequences, FiniteSets

CONSTANTS
  Size,          \* RING_SIZE: a power of two
  IndexMod,      \* RING_IDX counts modulo this (2^32)
  MaxRequests,   \* bound: requests the frontend sends
  Answerers      \* who may call sendResponse(): "event", "worker"

ASSUME RingAssumption ==
  /\ Size \in Nat \ {0} /\ IndexMod \in Nat
  /\ IndexMod % Size = 0 /\ IndexMod > Size
  /\ MaxRequests \in Nat
  /\ Answerers \subseteq {"event", "worker"}

VARIABLES
  reqProd, reqEvent, rspProd, rspEvent, slot,   \* the shared page (sring)
  reqProdPvt, rspCons,                          \* the frontend's ring
  sent, rrp, ri,                                \* its locals
  reqCons, rspProdPvt,                          \* mRing
  rp, req,                                      \* locals of onReceiveIndication()
  owed,                                         \* taken for the worker to answer
  old, ans,                                     \* locals of sendResponse()
  pendingBe, pendingFe,                         \* event channel, either direction
  answerer,                                     \* who answers in this client
  pc

page  == <<reqProd, reqEvent, rspProd, rspEvent, slot>>
front == <<reqProdPvt, rspCons, sent, rrp, ri>>
back  == <<reqCons, rspProdPvt, rp, req, owed, old, ans, answerer>>
chan  == <<pendingBe, pendingFe>>
vars  == <<page, front, back, chan, pc>>

Thread == {"event", "worker", "sender", "receiver"}
Index  == 0..IndexMod - 1

\* Mutant: an index that does not wrap
AddNoWrap(i, n) == i + n

Add(i, n)  == (i + n) % IndexMod
Dist(i, j) == (j - i + IndexMod) % IndexMod      \* the unsigned j - i
Goto(t, l) == pc' = [pc EXCEPT ![t] = l]

Request(n)  == [kind |-> "req", id |-> n]
Response(n) == [kind |-> "rsp", id |-> n]
-----------------------------------------------------------------------------
(* The frontend *)

\* It fills slots while RING_FULL() is false ...
FillRequest ==
  /\ pc["sender"] = "fill"
  /\ sent < MaxRequests
  /\ Dist(rspCons, reqProdPvt) < Size
  /\ slot' = [slot EXCEPT ![reqProdPvt % Size] = Request(sent + 1)]
  /\ reqProdPvt' = Add(reqProdPvt, 1)
  /\ sent' = sent + 1
  /\ UNCHANGED <<reqProd, reqEvent, rspProd, rspEvent, rspCons, rrp, ri, back, chan, pc>>

\* ... and RING_PUSH_REQUESTS_AND_CHECK_NOTIFY(): the index first,
PushRequests ==
  /\ pc["sender"] = "fill"
  /\ reqProdPvt # reqProd
  /\ old' = [old EXCEPT !["sender"] = reqProd]
  /\ reqProd' = reqProdPvt
  /\ Goto("sender", "check")
  /\ UNCHANGED <<reqEvent, rspProd, rspEvent, slot, front, reqCons, rspProdPvt, rp,
                 req, owed, ans, answerer, chan>>

\* then a notification if req_event lies in what was pushed.
NotifyBackend ==
  /\ pc["sender"] = "check"
  /\ pendingBe' = (pendingBe \/ Dist(reqEvent, reqProd) < Dist(old["sender"], reqProd))
  /\ Goto("sender", "fill")
  /\ UNCHANGED <<page, front, back, pendingFe>>

ReceiveEvent ==
  /\ pc["receiver"] = "wait"
  /\ pendingFe
  /\ pendingFe' = FALSE
  /\ Goto("receiver", "read")
  /\ UNCHANGED <<page, front, back, pendingBe>>

ReadRspProd ==
  /\ pc["receiver"] = "read"
  /\ rrp' = rspProd
  /\ ri' = rspCons
  /\ Goto("receiver", "take")
  /\ UNCHANGED <<page, reqProdPvt, rspCons, sent, back, chan>>

TakeResponse ==
  /\ pc["receiver"] = "take"
  /\ ri # rrp
  /\ ri' = Add(ri, 1)
  /\ UNCHANGED <<page, reqProdPvt, rspCons, sent, rrp, back, chan, pc>>

\* RING_FINAL_CHECK_FOR_RESPONSES(): look, arm rsp_event, look again.
ResponsesTaken ==
  /\ pc["receiver"] = "take"
  /\ ri = rrp
  /\ rspCons' = ri
  /\ Goto("receiver", IF rspProd # ri THEN "read" ELSE "arm")
  /\ UNCHANGED <<page, reqProdPvt, sent, rrp, ri, back, chan>>

ArmRspEvent ==
  /\ pc["receiver"] = "arm"
  /\ rspEvent' = Add(rspCons, 1)
  /\ Goto("receiver", "recheck")
  /\ UNCHANGED <<reqProd, reqEvent, rspProd, slot, front, back, chan>>

RecheckResponses ==
  /\ pc["receiver"] = "recheck"
  /\ Goto("receiver", IF rspProd # rspCons THEN "read" ELSE "wait")
  /\ UNCHANGED <<page, front, back, chan>>

SenderStep   == PushRequests \/ NotifyBackend
ReceiverStep == ReceiveEvent \/ ReadRspProd \/ TakeResponse \/ ResponsesTaken
                \/ ArmRspEvent \/ RecheckResponses
-----------------------------------------------------------------------------
(* eventThread() and onReceiveIndication() *)

\* The port is read, which clears it, and unmasked before the callback.
PollEvent ==
  /\ pc["event"] = "wait"
  /\ pendingBe
  /\ pendingBe' = FALSE
  /\ Goto("event", "read")
  /\ UNCHANGED <<page, front, back, pendingFe>>

ReadProd(overflow) ==
  /\ pc["event"] = "read"
  /\ rp' = reqProd
  /\ Goto("event", IF overflow THEN "failed" ELSE "take")
  /\ UNCHANGED <<page, front, reqCons, rspProdPvt, req, owed, old, ans, answerer, chan>>

\* Mutant: a full ring taken for an overflow
ReadReqProdFull == ReadProd(Dist(rspProdPvt, reqProd) >= Size)

\* RING_REQUEST_PROD_OVERFLOW() throws out of the thread.
ReadReqProd == ReadProd(Dist(rspProdPvt, reqProd) > Size)

\* So does RING_REQUEST_CONS_OVERFLOW(); the request is copied out of its slot
\* before req_cons gives the slot away.
TakeRequest ==
  /\ pc["event"] = "take"
  /\ reqCons # rp
  /\ IF Dist(rspProdPvt, reqCons) >= Size
       THEN Goto("event", "failed") /\ UNCHANGED <<req, reqCons>>
       ELSE /\ req' = slot[reqCons % Size].id
            /\ reqCons' = Add(reqCons, 1)
            /\ Goto("event", "process")
  /\ UNCHANGED <<page, front, rspProdPvt, rp, owed, old, ans, answerer, chan>>

\* processRequest() answers in place, or leaves the request to the worker.
ProcessRequest ==
  /\ pc["event"] = "process"
  /\ \/ /\ answerer = "event"
        /\ ans' = [ans EXCEPT !["event"] = req]
        /\ Goto("event", "response")
        /\ UNCHANGED owed
     \/ /\ answerer = "worker"
        /\ owed' = owed \union {req}
        /\ Goto("event", "take")
        /\ UNCHANGED ans
  /\ UNCHANGED <<page, front, reqCons, rspProdPvt, rp, req, old, answerer, chan>>

\* RING_HAS_UNCONSUMED_REQUESTS()
Unconsumed ==
  Dist(reqCons, reqProd) > 0 /\ Dist(rspProdPvt, reqCons) < Size

Consumed(next) ==
  /\ pc["event"] = "take"
  /\ reqCons = rp
  /\ Goto("event", IF Unconsumed THEN "read" ELSE next)
  /\ UNCHANGED <<page, front, back, chan>>

\* Mutant: RING_HAS_UNCONSUMED_REQUESTS() in place of the final check
CheckOnce == Consumed("wait")

\* RING_FINAL_CHECK_FOR_REQUESTS(): look, arm req_event, look again.
FinalCheck == Consumed("arm")

ArmReqEvent ==
  /\ pc["event"] = "arm"
  /\ reqEvent' = Add(reqCons, 1)
  /\ Goto("event", "recheck")
  /\ UNCHANGED <<reqProd, rspProd, rspEvent, slot, front, back, chan>>

RecheckRequests ==
  /\ pc["event"] = "recheck"
  /\ Goto("event", IF Unconsumed THEN "read" ELSE "wait")
  /\ UNCHANGED <<page, front, back, chan>>

EventStep == PollEvent \/ ReadReqProd \/ TakeRequest \/ ProcessRequest
             \/ FinalCheck \/ ArmReqEvent \/ RecheckRequests
-----------------------------------------------------------------------------
(* sendResponse(), by the event thread or by the worker *)

\* The worker answers what it holds in any order.
PickResponse ==
  /\ pc["worker"] = "idle"
  /\ \E n \in owed : ans' = [ans EXCEPT !["worker"] = n] /\ owed' = owed \ {n}
  /\ Goto("worker", "response")
  /\ UNCHANGED <<page, front, reqCons, rspProdPvt, rp, req, old, answerer, chan>>

PutAt(t, i) ==
  /\ pc[t] = "response"
  /\ slot' = [slot EXCEPT ![i % Size] = Response(ans[t])]
  /\ rspProdPvt' = Add(rspProdPvt, 1)
  /\ Goto(t, "push")
  /\ UNCHANGED <<reqProd, reqEvent, rspProd, rspEvent, front, reqCons, rp, req, owed,
                 old, ans, answerer, chan>>

\* Mutant: the response goes where the next request is
PutResponseAtRequest(t) == PutAt(t, reqCons)

PutResponse(t) == PutAt(t, rspProdPvt)

\* RING_PUSH_RESPONSES_AND_CHECK_NOTIFY()
PushResponses(t) ==
  /\ pc[t] = "push"
  /\ old' = [old EXCEPT ![t] = rspProd]
  /\ rspProd' = rspProdPvt
  /\ Goto(t, "check")
  /\ UNCHANGED <<reqProd, reqEvent, rspEvent, slot, front, reqCons, rspProdPvt, rp, req,
                 owed, ans, answerer, chan>>

NotifyFrontend(t) ==
  /\ pc[t] = "check"
  /\ pendingFe' = (pendingFe \/ Dist(rspEvent, rspProd) < Dist(old[t], rspProd))
  /\ Goto(t, IF t = "event" THEN "take" ELSE "idle")
  /\ UNCHANGED <<page, front, back, pendingBe>>

ResponseStep(t) == PutResponse(t) \/ PushResponses(t) \/ NotifyFrontend(t)
-----------------------------------------------------------------------------
\* SHARED_RING_INIT(), FRONT_RING_INIT(), BACK_RING_INIT()
Init ==
  /\ reqProd = 0 /\ rspProd = 0 /\ reqEvent = 1 /\ rspEvent = 1
  /\ slot = [i \in 0..Size - 1 |-> Request(0)]
  /\ reqProdPvt = 0 /\ rspCons = 0 /\ sent = 0 /\ rrp = 0 /\ ri = 0
  /\ reqCons = 0 /\ rspProdPvt = 0 /\ rp = 0 /\ req = 0 /\ owed = {}
  /\ old = [t \in Thread |-> 0] /\ ans = [t \in Thread |-> 0]
  /\ pendingBe = FALSE /\ pendingFe = FALSE
  /\ answerer \in Answerers
  /\ pc = [t \in Thread |-> CASE t = "event" -> "wait" [] t = "worker" -> "idle"
                              [] t = "sender" -> "fill" [] t = "receiver" -> "wait"]

\* Every request is answered and every response received.
Quiet == /\ sent = MaxRequests /\ reqProd = reqProdPvt /\ rspCons = reqProd
         /\ pc["event"] = "wait" /\ pc["receiver"] = "wait" /\ pc["sender"] = "fill"

Next ==
  \/ FillRequest \/ SenderStep \/ ReceiverStep
  \/ EventStep \/ PickResponse
  \/ \E t \in {"event", "worker"} : ResponseStep(t)
  \/ Quiet /\ UNCHANGED vars

Spec == Init /\ [][Next]_vars

\* The threads of both ends are scheduled; a client that takes a request
\* answers it; a frontend that fills slots pushes them.
Fairness ==
  /\ WF_vars(SenderStep) /\ WF_vars(ReceiverStep)
  /\ WF_vars(EventStep \/ ResponseStep("event"))
  /\ WF_vars(PickResponse \/ ResponseStep("worker"))

FairSpec == Spec /\ Fairness
-----------------------------------------------------------------------------
(* Properties *)

\* Every variable has its type.
TypeOK ==
  /\ reqProd \in Index /\ reqEvent \in Index /\ rspProd \in Index /\ rspEvent \in Index
  /\ reqProdPvt \in Index /\ rspCons \in Index /\ rrp \in Index /\ ri \in Index
  /\ reqCons \in Index /\ rspProdPvt \in Index /\ rp \in Index
  /\ slot \in [0..Size - 1 -> [kind : {"req", "rsp"}, id : 0..MaxRequests]]
  /\ sent \in 0..MaxRequests /\ req \in 0..MaxRequests /\ owed \subseteq 1..MaxRequests
  /\ old \in [Thread -> Index] /\ ans \in [Thread -> 0..MaxRequests]
  /\ pendingBe \in BOOLEAN /\ pendingFe \in BOOLEAN
  /\ answerer \in {"event", "worker"}
  /\ pc["event"] \in {"wait", "read", "take", "process", "response", "push", "check",
                      "arm", "recheck", "failed"}

\* With a frontend that keeps to RING_FULL(), the overflow checks of
\* onReceiveIndication() never throw, though they read rsp_prod_pvt while a
\* worker moves it and though the indices wrap.
NoFalseOverflow == pc["event"] # "failed"

\* An end that sleeps has nothing to do: a request or a response that it has
\* not taken comes with a notification that is pending or about to be sent.
NothingStranded ==
  /\ pc["event"] = "wait" /\ reqProd # reqCons => pendingBe \/ pc["sender"] = "check"
  /\ pc["receiver"] = "wait" /\ rspProd # rspCons
       => pendingFe \/ pc["event"] = "check" \/ pc["worker"] = "check"

\* The slots from index i up to j
Window(i, j) == [k \in 1..Dist(i, j) |-> slot[Add(i, k - 1) % Size]]

\* The ring is a RequestChannel: indices and slots that both ends share without
\* a lock, and notifications sent only when asked for, lose, repeat, reorder
\* and strand nothing.
InHand == owed \union (IF pc["event"] = "process" THEN {req} ELSE {})
               \union {ans[t] : t \in {u \in {"event", "worker"} : pc[u] \in {"response", "push"}}}
Channel == INSTANCE RequestChannel
             WITH Capacity <- Size, posted <- sent - Dist(reqProd, reqProdPvt),
                  reqs <- Window(reqCons, reqProd), taken <- InHand,
                  rsps <- Window(IF pc["receiver"] = "take" THEN ri ELSE rspCons, rspProd)
ImplementsChannel == Channel!FairSpec
=============================================================================
