-------------------------- MODULE RingBufferIn_proofs --------------------------
(***************************************************************************)
(* RingBufferIn for every ring size, every index width of which the size   *)
(* is a divisor, every number of requests and either kind of client: the   *)
(* type invariant, no false overflow (NoOverflow) and no lost notification *)
(* (NoneStranded).                                                         *)
(*                                                                         *)
(* An index alone says little once it has wrapped.  All indices follow the *)
(* frontend's private producer, which stands for the number of requests    *)
(* that were filled in, at a distance of Size at most: Behind(i) is that   *)
(* distance and Before(i) the number of the request just before index i.   *)
(* On these the order of the indices is an order of integers (OrderInv),   *)
(* what a slot holds is known by the number (SlotInv), and the requests    *)
(* taken and not answered are as many as the indices say (HandInv).  The   *)
(* two notice invariants say what an event index is while its owner        *)
(* sleeps, and that who pushed past it has still to send the notification. *)
(***************************************************************************)
EXTENDS RingBufferIn, Integers, FiniteSetTheorems, SequenceTheorems, TLAPS

-----------------------------------------------------------------------------
(* Indices: Add and Dist count modulo IndexMod. *)

\* What the proofs use of the constants; that Size divides IndexMod is cited where it is needed.
LEMMA Bounds ==
  /\ Size \in Nat \ {0} /\ IndexMod \in Nat \ {0} /\ IndexMod > Size
  /\ MaxRequests \in Nat
  BY RingAssumption

\* An index is an integer below IndexMod.
LEMMA IndexInt ==
  ASSUME NEW i \in Index
  PROVE  i \in Int /\ 0 <= i /\ i < IndexMod /\ IndexMod \in Int
  BY Bounds DEF Index

\* Two indices are less than IndexMod apart, in one direction.
LEMMA DistCases ==
  ASSUME NEW i \in Index, NEW j \in Index
  PROVE  /\ Dist(i, j) = IF i <= j THEN j - i ELSE j - i + IndexMod
         /\ Dist(i, j) \in Index
<1>1. j - i + IndexMod \in 0..2 * IndexMod - 1
  BY Bounds DEF Index
<1> QED
  BY <1>1, Bounds DEF Dist, Index

\* The next index is one more, or 0 after the last.
LEMMA AddOne ==
  ASSUME NEW i \in Index
  PROVE  /\ Add(i, 1) = IF i + 1 = IndexMod THEN 0 ELSE i + 1
         /\ Add(i, 1) \in Index
<1>1. i + 1 \in 0..IndexMod
  BY Bounds DEF Index
<1> QED
  BY <1>1, Bounds DEF Add, Index

\* Only an index itself is 0 away from it.
LEMMA DistZero ==
  ASSUME NEW i \in Index, NEW j \in Index
  PROVE  Dist(i, j) = 0 <=> i = j
<1>1. Dist(i, j) = IF i <= j THEN j - i ELSE j - i + IndexMod
  BY DistCases
<1> QED
  BY <1>1, IndexInt

\* Of two indices behind p, the one further behind is as far from the other as
\* their distances to p differ, wherever the wrap is.
LEMMA DistBetween ==
  ASSUME NEW i \in Index, NEW j \in Index, NEW p \in Index, Dist(j, p) <= Dist(i, p)
  PROVE  Dist(i, j) = Dist(i, p) - Dist(j, p)
<1>1. /\ Dist(i, j) = IF i <= j THEN j - i ELSE j - i + IndexMod
      /\ Dist(i, p) = IF i <= p THEN p - i ELSE p - i + IndexMod
      /\ Dist(j, p) = IF j <= p THEN p - j ELSE p - j + IndexMod
  BY DistCases
<1> QED
  BY <1>1, IndexInt

\* Two indices that are equally far behind a third are the same.
LEMMA DistEqual ==
  ASSUME NEW i \in Index, NEW j \in Index, NEW p \in Index
  PROVE  Dist(i, p) = Dist(j, p) <=> i = j
<1>1. /\ Dist(i, p) = IF i <= p THEN p - i ELSE p - i + IndexMod
      /\ Dist(j, p) = IF j <= p THEN p - j ELSE p - j + IndexMod
  BY DistCases
<1> QED
  BY <1>1, IndexInt

\* An index that moves on comes one closer to what is ahead of it,
LEMMA DistAddFrom ==
  ASSUME NEW i \in Index, NEW p \in Index, i # p
  PROVE  Dist(Add(i, 1), p) = Dist(i, p) - 1
<1>1. Add(i, 1) = (IF i + 1 = IndexMod THEN 0 ELSE i + 1) /\ Add(i, 1) \in Index
  BY AddOne
<1>2. /\ Dist(i, p) = IF i <= p THEN p - i ELSE p - i + IndexMod
      /\ Dist(Add(i, 1), p) = IF Add(i, 1) <= p THEN p - Add(i, 1) ELSE p - Add(i, 1) + IndexMod
  BY <1>1, DistCases
<1> QED
  BY <1>1, <1>2, IndexInt

\* and leaves what is behind it one further behind.
LEMMA DistAddTo ==
  ASSUME NEW i \in Index, NEW p \in Index, Dist(i, p) < IndexMod - 1
  PROVE  Dist(i, Add(p, 1)) = Dist(i, p) + 1
<1>1. Add(p, 1) = (IF p + 1 = IndexMod THEN 0 ELSE p + 1) /\ Add(p, 1) \in Index
  BY AddOne
<1>2. /\ Dist(i, p) = IF i <= p THEN p - i ELSE p - i + IndexMod
      /\ Dist(i, Add(p, 1)) = IF i <= Add(p, 1) THEN Add(p, 1) - i ELSE Add(p, 1) - i + IndexMod
  BY <1>1, DistCases
<1> QED
  BY <1>1, <1>2, IndexInt

-----------------------------------------------------------------------------
(* Slots *)

\* Division with remainder,
LEMMA DivMod ==
  ASSUME NEW m \in Nat \ {0}, NEW a \in Int
  PROVE  /\ a \div m \in Int /\ a % m \in 0..m - 1
         /\ a = (m * (a \div m)) + (a % m)
  OBVIOUS

\* and only one remainder fits.
LEMMA ModUnique ==
  ASSUME NEW m \in Nat \ {0}, NEW q \in Int, NEW r \in 0..m - 1
  PROVE  ((m * q) + r) % m = r
  OBVIOUS

\* A number modulo Size is a slot.
LEMMA SlotRange ==
  ASSUME NEW a \in Int
  PROVE  a % Size \in 0..Size - 1
  BY DivMod, Bounds

\* Two numbers less than Size apart have different slots.
LEMMA SlotsDiffer ==
  ASSUME NEW a \in Int, NEW b \in Int, a < b, b - a < Size
  PROVE  a % Size # b % Size
<1> SUFFICES ASSUME a % Size = b % Size PROVE FALSE
  OBVIOUS
<1> DEFINE q == a \div Size
           s == b \div Size
<1>1. /\ q \in Int /\ s \in Int /\ a % Size \in Int
      /\ a = (Size * q) + (a % Size) /\ b = (Size * s) + (a % Size)
  BY DivMod, Bounds
<1> HIDE DEF q, s
<1>2. Size * s - Size * q = b - a
  BY <1>1, Bounds
<1>3. Size * (s - q) = b - a
  BY <1>1, <1>2, Bounds
<1>4. s - q >= 1 => Size * (s - q) >= Size
  BY <1>1, Bounds
<1>5. s - q <= 0 => Size * (s - q) <= 0
  BY <1>1, Bounds
<1> QED
  BY <1>1, <1>3, <1>4, <1>5, Bounds

\* Size divides IndexMod: the slot of an index is that of the number it stands for.
LEMMA SlotOfMod ==
  ASSUME NEW a \in Int
  PROVE  (a % IndexMod) % Size = a % Size
<1> DEFINE c == IndexMod \div Size
           q == a \div IndexMod
           r == a % IndexMod
           d == r \div Size
           e == r % Size
<1>1. c \in Int /\ IndexMod = Size * c
  BY DivMod, Bounds, RingAssumption
<1>2. q \in Int /\ r \in Int /\ a = (IndexMod * q) + r
  BY DivMod, Bounds
<1>3. d \in Int /\ e \in 0..Size - 1 /\ r = (Size * d) + e
  BY <1>2, DivMod, Bounds
<1> HIDE DEF c, q, r, d, e
<1>4. (Size * c) * q = Size * (c * q)
  BY <1>1, <1>2, Bounds
<1>5. Size * ((c * q) + d) = Size * (c * q) + Size * d
  BY <1>1, <1>2, <1>3, Bounds
<1>6. a = (Size * ((c * q) + d)) + e
  BY <1>1, <1>2, <1>3, <1>4, <1>5, Bounds
<1>7. a % Size = e
  BY <1>1, <1>2, <1>3, <1>6, ModUnique, Bounds
<1> QED
  BY <1>7 DEF e, r

\* The index i, when p is the index of n, is that of the number as far below n.
LEMMA IndexOf ==
  ASSUME NEW n \in Nat, NEW p \in Index, p = n % IndexMod, NEW i \in Index
  PROVE  i = (n - Dist(i, p)) % IndexMod
<1> DEFINE q == n \div IndexMod
<1>1. q \in Int /\ n = (IndexMod * q) + p
  BY DivMod, Bounds
<1> HIDE DEF q
<1>2. Dist(i, p) = IF i <= p THEN p - i ELSE p - i + IndexMod
  BY DistCases
<1>3. CASE i <= p
  <2>1. n - Dist(i, p) = (IndexMod * q) + i
    BY <1>1, <1>2, <1>3, IndexInt
  <2> QED
    BY <1>1, <2>1, ModUnique, Bounds DEF Index
<1>4. CASE i > p
  <2>1. IndexMod * (q - 1) = IndexMod * q - IndexMod
    BY <1>1, Bounds
  <2>2. n - Dist(i, p) = (IndexMod * (q - 1)) + i
    BY <1>1, <1>2, <1>4, <2>1, IndexInt
  <2>3. q - 1 \in Int /\ i \in 0..IndexMod - 1
    BY <1>1 DEF Index
  <2>4. ((IndexMod * (q - 1)) + i) % IndexMod = i
    BY <2>3, ModUnique, Bounds
  <2> QED
    BY <2>2, <2>4
<1> QED
  BY <1>3, <1>4, IndexInt

\* The next number has the next index.
LEMMA NextIndex ==
  ASSUME NEW n \in Nat
  PROVE  Add(n % IndexMod, 1) = (n + 1) % IndexMod
<1> DEFINE q == n \div IndexMod
           r == n % IndexMod
<1>1. q \in Int /\ r \in Index /\ n = (IndexMod * q) + r
  BY DivMod, Bounds DEF Index
<1>2. Add(r, 1) = IF r + 1 = IndexMod THEN 0 ELSE r + 1
  BY <1>1, AddOne
<1> HIDE DEF q, r
<1>3. CASE r + 1 = IndexMod
  <2>1. n + 1 = (IndexMod * (q + 1)) + 0
    BY <1>1, <1>3, Bounds DEF Index
  <2>2. ((IndexMod * (q + 1)) + 0) % IndexMod = 0
    BY <1>1, ModUnique, Bounds
  <2> QED
    BY <1>2, <1>3, <2>1, <2>2 DEF r
<1>4. CASE r + 1 # IndexMod
  <2>1. n + 1 = (IndexMod * q) + (r + 1) /\ r + 1 \in 0..IndexMod - 1
    BY <1>1, <1>4, Bounds DEF Index
  <2>2. ((IndexMod * q) + (r + 1)) % IndexMod = r + 1
    BY <1>1, <2>1, ModUnique, Bounds
  <2> QED
    BY <1>2, <1>4, <2>1, <2>2 DEF r
<1> QED
  BY <1>3, <1>4

-----------------------------------------------------------------------------
(* The inductive invariant *)

\* How far an index is behind the frontend's private producer, which is ahead of
\* all others: request sent - Behind(i) is the last that lies before index i.
Behind(i) == Dist(i, reqProdPvt)
Before(i) == sent - Behind(i)

Busy       == {"process", "response", "push", "check"}
Answerer   == {"event", "worker"}
HasAnswer(t) == pc[t] \in {"response", "push"}

ControlInv ==
  /\ pc \in [Thread -> {"wait", "read", "take", "arm", "recheck", "idle", "fill"} \union Busy]
  /\ pc["event"] \in {"wait", "read", "take", "arm", "recheck"} \union Busy
  /\ pc["worker"] \in {"idle", "response", "push", "check"}
  /\ pc["sender"] \in {"fill", "check"}
  /\ pc["receiver"] \in {"wait", "read", "take", "arm", "recheck"}
  /\ answerer = "event" => pc["worker"] = "idle" /\ owed = {}
  /\ answerer = "worker" => pc["event"] \notin {"response", "push", "check"}

\* The indices follow each other, and the last is no more than Size behind.
OrderInv ==
  /\ reqProdPvt = sent % IndexMod
  /\ Behind(reqProd) <= Behind(reqCons)
  /\ Behind(reqCons) <= Behind(rspProdPvt)
  /\ Behind(rspProdPvt) <= Behind(rspProd)
  /\ Behind(rspProd) <= Behind(rspCons)
  /\ Behind(rspCons) <= Size
  /\ Behind(rspCons) <= sent
  /\ pc["event"] \in {"take"} \union Busy =>
       Behind(reqProd) <= Behind(rp) /\ Behind(rp) <= Behind(reqCons)
  /\ pc["receiver"] = "take" =>
       /\ Behind(rspProd) <= Behind(rrp) /\ Behind(rrp) <= Behind(ri)
       /\ Behind(ri) <= Behind(rspCons)

\* The requests taken and not answered are as many as the slots between the
\* responses and the requests, and all different.
HandInv ==
  /\ InHand \subseteq 1..Before(reqCons)
  /\ Cardinality(InHand) = Behind(rspProd) - Behind(reqCons)
  /\ \A t \in Answerer : pc[t] = "push" => rspProdPvt = Add(rspProd, 1)
  /\ (\A t \in Answerer : pc[t] # "push") => rspProdPvt = rspProd
  /\ HasAnswer("worker") => ans["worker"] \notin owed
  /\ pc["event"] = "process" =>
       /\ req = Before(reqCons)
       /\ req \notin owed
       /\ HasAnswer("worker") => ans["worker"] # req

\* A request that is not taken is in its slot, and so is a response not pushed.
SlotInv ==
  /\ \A n \in Before(reqCons) + 1..sent : slot[(n - 1) % Size] = Request(n)
  /\ \A t \in Answerer : pc[t] = "push" => slot[rspProd % Size] = Response(ans[t])

\* Each end sleeps with its event index armed; the other, if it has pushed
\* since, has notified it or is about to, with an old index that says so.
RequestNotice ==
  /\ pc["event"] \in {"wait", "recheck"} => reqEvent = Add(reqCons, 1)
  /\ pc["sender"] = "check" => /\ reqProd = reqProdPvt
                               /\ Behind(old["sender"]) \in 1..Size
  /\ pc["event"] = "wait" /\ reqProd # reqCons =>
       pendingBe \/ (pc["sender"] = "check" /\ Behind(old["sender"]) >= Behind(reqCons))

ResponseNotice ==
  /\ pc["receiver"] \in {"wait", "recheck"} => rspEvent = Add(rspCons, 1)
  /\ \A t \in Answerer : pc[t] = "check" => rspProd = Add(old[t], 1)
  /\ pc["receiver"] = "wait" /\ rspProd # rspCons =>
       pendingFe \/ \E t \in Answerer : pc[t] = "check" /\ old[t] = rspCons

IInv == TypeOK /\ ControlInv /\ OrderInv /\ HandInv /\ SlotInv /\ RequestNotice /\ ResponseNotice

USE DEF Behind, Before, Busy, Answerer, HasAnswer

-----------------------------------------------------------------------------
(* What the steps have in common *)

\* The indices are indices, and how far each is behind is an integer below IndexMod.
LEMMA Typed ==
  ASSUME TypeOK
  PROVE  /\ reqProd \in Index /\ reqEvent \in Index /\ rspProd \in Index /\ rspEvent \in Index
         /\ reqProdPvt \in Index /\ rspCons \in Index /\ rrp \in Index /\ ri \in Index
         /\ reqCons \in Index /\ rspProdPvt \in Index /\ rp \in Index
         /\ sent \in Nat
         /\ \A i \in Index : /\ Behind(i) \in Int /\ 0 <= Behind(i) /\ Behind(i) < IndexMod
                             /\ Behind(i) = 0 <=> i = reqProdPvt
<1>1. reqProdPvt \in Index
  BY DEF TypeOK
<1>2. \A i \in Index : /\ Behind(i) \in Int /\ 0 <= Behind(i) /\ Behind(i) < IndexMod
                       /\ Behind(i) = 0 <=> i = reqProdPvt
  BY <1>1, DistCases, DistZero, IndexInt
<1> QED
  BY <1>1, <1>2, Bounds DEF TypeOK

\* An index and the number it stands for share a slot.
LEMMA SlotOf ==
  ASSUME IInv, NEW i \in Index
  PROVE  i % Size = Before(i) % Size
<1>1. i = Before(i) % IndexMod
  BY Typed, IndexOf DEF IInv, OrderInv
<1>2. Before(i) \in Int
  BY Typed DEF IInv
<1> QED
  BY <1>1, <1>2, SlotOfMod

\* The rings as the INIT macros leave them satisfy the invariant.
LEMMA InitInv == Init => IInv
<1> SUFFICES ASSUME Init PROVE IInv
  OBVIOUS
<1>1. 0 \in Index /\ 1 \in Index /\ Dist(0, 0) = 0 /\ Add(0, 1) = 1
  BY DistZero, AddOne, Bounds DEF Index
<1>2. 0 \in 0..MaxRequests /\ Request(0) \in [kind : {"req", "rsp"}, id : 0..MaxRequests]
  BY Bounds DEF Request
<1>3. InHand = {}
  BY DEF Init, InHand, Thread
<1>4. 0 % IndexMod = 0
  BY Bounds
<1>5. TypeOK
  <2>1. answerer \in {"event", "worker"}
    BY RingAssumption DEF Init
  <2>2. slot \in [0..Size - 1 -> [kind : {"req", "rsp"}, id : 0..MaxRequests]]
    BY <1>2 DEF Init
  <2> QED
    BY <1>1, <1>2, <2>1, <2>2 DEF Init, TypeOK, Thread
<1>6. ControlInv
  BY RingAssumption DEF Init, ControlInv, Thread
<1>7. OrderInv
  BY <1>1, <1>4, Bounds DEF Init, OrderInv, Thread
<1>8. HandInv
  BY <1>1, <1>3, FS_EmptySet DEF Init, HandInv, Thread
<1>9. SlotInv /\ RequestNotice /\ ResponseNotice
  BY <1>1 DEF Init, SlotInv, RequestNotice, ResponseNotice, Thread
<1> QED
  BY <1>5, <1>6, <1>7, <1>8, <1>9 DEF IInv

-----------------------------------------------------------------------------
(* The frontend *)

\* A slot is filled that no request and no response is in.
LEMMA FillInv ==
  ASSUME IInv, FillRequest
  PROVE  IInv'
<1> USE DEF IInv
<1>1. /\ sent' = sent + 1 /\ reqProdPvt' = Add(reqProdPvt, 1)
      /\ slot' = [slot EXCEPT ![reqProdPvt % Size] = Request(sent + 1)]
      /\ Behind(rspCons) < Size /\ sent < MaxRequests /\ pc["sender"] = "fill"
      /\ UNCHANGED <<reqProd, reqEvent, rspProd, rspEvent, rspCons, rrp, ri, reqCons, rspProdPvt,
                     rp, req, owed, old, ans, answerer, pendingBe, pendingFe, pc>>
  BY DEF FillRequest, back, chan
<1>2. \A i \in Index : Behind(i) < Size =>
         Dist(i, reqProdPvt') = Behind(i) + 1 /\ sent' - Dist(i, reqProdPvt') = Before(i)
  BY <1>1, Typed, DistAddTo, Bounds
<1>3. TypeOK'
  <2>1. reqProdPvt' \in Index
    BY <1>1, Typed, AddOne
  <2>2. Request(sent + 1) \in [kind : {"req", "rsp"}, id : 0..MaxRequests]
    BY <1>1, Typed, Bounds DEF Request
  <2>3. slot' \in [0..Size - 1 -> [kind : {"req", "rsp"}, id : 0..MaxRequests]]
    BY <1>1, <2>2 DEF TypeOK
  <2>4. sent' \in 0..MaxRequests
    BY <1>1, Bounds DEF TypeOK
  <2> QED
    BY <1>1, <2>1, <2>3, <2>4 DEF TypeOK
<1>4. ControlInv'
  BY <1>1 DEF ControlInv
<1>5. OrderInv'
  <2>1. reqProdPvt' = sent' % IndexMod
    BY <1>1, Typed, NextIndex DEF OrderInv
  <2> QED
    BY <1>1, <1>2, <2>1, Typed, Bounds DEF OrderInv
<1>6. Before(reqCons)' = Before(reqCons) /\ Behind(reqCons) < Size
      /\ Behind(rspProd) < Size /\ Behind(rspProdPvt) < Size
  BY <1>1, <1>2, Typed, Bounds DEF OrderInv
<1>7. HandInv'
  <2>1. InHand' = InHand
    BY <1>1 DEF InHand
  <2> QED
    BY <1>1, <1>2, <1>6, <2>1, Typed DEF HandInv
<1>8. SlotInv'
  <2>1. sent % Size = reqProdPvt % Size
    BY Typed, SlotOfMod DEF OrderInv
  <2>2. \A a \in Int : a < sent /\ sent - a < Size => slot'[a % Size] = slot[a % Size]
    BY <1>1, <2>1, Typed, SlotsDiffer
  <2>3. slot'[sent % Size] = Request(sent + 1)
    <3>1. sent \in Int
      BY Typed
    <3>2. sent % Size \in 0..Size - 1
      BY <3>1, SlotRange
    <3> QED
      BY <1>1, <2>1, <3>2 DEF TypeOK
  <2>4. ASSUME NEW n \in Before(reqCons)' + 1..sent'
        PROVE  slot'[(n - 1) % Size] = Request(n)
    <3>1. n \in Int /\ (n = sent + 1 \/ n \in Before(reqCons) + 1..sent)
      BY <1>1, <1>6, Typed
    <3>2. CASE n = sent + 1
      BY <2>3, <3>2, Typed
    <3>3. CASE n \in Before(reqCons) + 1..sent
      <4>1. Behind(reqCons) \in Int /\ sent \in Int /\ Size \in Int
        BY Typed, Bounds
      <4>2. n - 1 \in Int /\ n - 1 < sent /\ sent - (n - 1) < Size
        BY <1>6, <3>1, <3>3, <4>1
      <4> QED
        BY <2>2, <3>3, <4>2 DEF SlotInv
    <3> QED
      BY <3>1, <3>2, <3>3
  <2>5. ASSUME NEW t \in Answerer, pc[t] = "push"
        PROVE  slot'[rspProd % Size] = Response(ans[t])
    <3>1. rspProdPvt = Add(rspProd, 1)
      BY <2>5 DEF HandInv
    <3>2. rspProd # reqProdPvt
      <4>1. Add(rspProd, 1) # rspProd
        BY AddOne, Typed, IndexInt, Bounds
      <4> QED
        BY <3>1, <4>1, Typed DEF OrderInv
    <3>3. Before(rspProd) \in Int /\ Before(rspProd) < sent /\ sent - Before(rspProd) < Size
      BY <1>6, <3>2, Typed
    <3> QED
      BY <2>2, <2>5, <3>3, Typed, SlotOf DEF SlotInv
  <2> QED
    BY <1>1, <2>4, <2>5 DEF SlotInv
<1>9. RequestNotice' /\ ResponseNotice'
  BY <1>1 DEF RequestNotice, ResponseNotice
<1> QED
  BY <1>3, <1>4, <1>5, <1>7, <1>8, <1>9

\* The pushed producer is the private one; an event thread that slept over it
\* is to be notified, if not by this push then by an earlier one.
LEMMA PushRequestsInv ==
  ASSUME IInv, PushRequests
  PROVE  IInv'
<1> USE DEF IInv
<1>1. /\ reqProdPvt # reqProd /\ reqProd' = reqProdPvt
      /\ old' = [old EXCEPT !["sender"] = reqProd]
      /\ pc["sender"] = "fill" /\ pc' = [pc EXCEPT !["sender"] = "check"]
      /\ UNCHANGED <<reqEvent, rspProd, rspEvent, slot, reqProdPvt, rspCons, sent, rrp, ri,
                     reqCons, rspProdPvt, rp, req, owed, ans, answerer, pendingBe, pendingFe>>
  BY DEF PushRequests, front, chan, Goto
<1>2. /\ pc'["sender"] = "check" /\ pc'["event"] = pc["event"]
      /\ pc'["worker"] = pc["worker"] /\ pc'["receiver"] = pc["receiver"]
      /\ old'["sender"] = reqProd /\ old'["event"] = old["event"] /\ old'["worker"] = old["worker"]
      /\ pc' \in [Thread -> {"wait", "read", "take", "arm", "recheck", "idle", "fill"} \union Busy]
  BY <1>1 DEF ControlInv, TypeOK, Thread
<1>3. TypeOK'
  BY <1>1, <1>2, Typed DEF TypeOK
<1>4. ControlInv'
  BY <1>1, <1>2 DEF ControlInv
<1>5. OrderInv'
  <2>1. Behind(reqProd)' = 0
    BY <1>1, Typed
  <2> QED
    BY <1>1, <1>2, <2>1, Typed DEF OrderInv
<1>6. HandInv' /\ SlotInv'
  <2>1. InHand' = InHand
    BY <1>1, <1>2 DEF InHand
  <2> QED
    BY <1>1, <1>2, <2>1 DEF HandInv, SlotInv
<1>7. RequestNotice'
  <2>1. Behind(reqProd) \in 1..Size
    BY <1>1, Typed, Bounds DEF OrderInv
  <2>2. reqProd = reqCons => Behind(reqProd) >= Behind(reqCons)
    BY Typed
  <2> QED
    BY <1>1, <1>2, <2>1, <2>2 DEF RequestNotice
<1>8. ResponseNotice'
  BY <1>1, <1>2 DEF ResponseNotice
<1> QED
  BY <1>3, <1>4, <1>5, <1>6, <1>7, <1>8

\* req_event is one past req_cons: it lies in what was pushed if that reaches
\* over req_cons.
LEMMA NotifyBackendInv ==
  ASSUME IInv, NotifyBackend
  PROVE  IInv'
<1> USE DEF IInv
<1>1. /\ pendingBe' = (pendingBe \/ Dist(reqEvent, reqProd) < Dist(old["sender"], reqProd))
      /\ pc["sender"] = "check" /\ pc' = [pc EXCEPT !["sender"] = "fill"]
      /\ UNCHANGED <<reqProd, reqEvent, rspProd, rspEvent, slot, reqProdPvt, rspCons, sent, rrp, ri,
                     reqCons, rspProdPvt, rp, req, owed, old, ans, answerer, pendingFe>>
  BY DEF NotifyBackend, page, front, back, Goto
<1>2. /\ pc'["sender"] = "fill" /\ pc'["event"] = pc["event"]
      /\ pc'["worker"] = pc["worker"] /\ pc'["receiver"] = pc["receiver"]
      /\ pc' \in [Thread -> {"wait", "read", "take", "arm", "recheck", "idle", "fill"} \union Busy]
  BY <1>1 DEF ControlInv, Thread
<1>3. TypeOK'
  BY <1>1, <1>2, Typed DEF TypeOK
<1>4. ControlInv'
  BY <1>1, <1>2 DEF ControlInv
<1>5. OrderInv'
  BY <1>1, <1>2 DEF OrderInv
<1>6. HandInv' /\ SlotInv'
  <2>1. InHand' = InHand
    BY <1>1, <1>2 DEF InHand
  <2> QED
    BY <1>1, <1>2, <2>1 DEF HandInv, SlotInv
<1>7. RequestNotice'
  <2> SUFFICES ASSUME pc["event"] = "wait", reqProd # reqCons, ~pendingBe
               PROVE  Dist(reqEvent, reqProd) < Dist(old["sender"], reqProd)
    BY <1>1, <1>2 DEF RequestNotice
  <2>1. /\ reqEvent = Add(reqCons, 1) /\ reqProd = reqProdPvt
        /\ Behind(old["sender"]) \in 1..Size /\ Behind(old["sender"]) >= Behind(reqCons)
    BY <1>1 DEF RequestNotice
  <2>2. Dist(reqEvent, reqProd) = Behind(reqCons) - 1
    BY <2>1, Typed, DistAddFrom
  <2> QED
    BY <2>1, <2>2, Typed, Bounds
<1>8. ResponseNotice'
  BY <1>1, <1>2 DEF ResponseNotice
<1> QED
  BY <1>3, <1>4, <1>5, <1>6, <1>7, <1>8

\* The receiver changes nothing that the requests depend on.
LEMMA ReceiveEventInv ==
  ASSUME IInv, ReceiveEvent
  PROVE  IInv'
<1> USE DEF IInv
<1>1. /\ pendingFe' = FALSE /\ pc' = [pc EXCEPT !["receiver"] = "read"]
      /\ UNCHANGED <<reqProd, reqEvent, rspProd, rspEvent, slot, reqProdPvt, rspCons, sent, rrp, ri,
                     reqCons, rspProdPvt, rp, req, owed, old, ans, answerer, pendingBe>>
  BY DEF ReceiveEvent, page, front, back, Goto
<1>2. /\ pc'["receiver"] = "read" /\ pc'["event"] = pc["event"]
      /\ pc'["worker"] = pc["worker"] /\ pc'["sender"] = pc["sender"]
      /\ pc' \in [Thread -> {"wait", "read", "take", "arm", "recheck", "idle", "fill"} \union Busy]
  BY <1>1 DEF ControlInv, Thread
<1>3. TypeOK' /\ ControlInv' /\ OrderInv'
  BY <1>1, <1>2 DEF TypeOK, ControlInv, OrderInv
<1>4. HandInv' /\ SlotInv'
  <2>1. InHand' = InHand
    BY <1>1, <1>2 DEF InHand
  <2> QED
    BY <1>1, <1>2, <2>1 DEF HandInv, SlotInv
<1>5. RequestNotice' /\ ResponseNotice'
  BY <1>1, <1>2 DEF RequestNotice, ResponseNotice
<1> QED
  BY <1>3, <1>4, <1>5

\* What the receiver reads is the last response pushed, and stays behind it.
LEMMA ReadRspProdInv ==
  ASSUME IInv, ReadRspProd
  PROVE  IInv'
<1> USE DEF IInv
<1>1. /\ rrp' = rspProd /\ ri' = rspCons /\ pc' = [pc EXCEPT !["receiver"] = "take"]
      /\ UNCHANGED <<reqProd, reqEvent, rspProd, rspEvent, slot, reqProdPvt, rspCons, sent,
                     reqCons, rspProdPvt, rp, req, owed, old, ans, answerer, pendingBe, pendingFe>>
  BY DEF ReadRspProd, page, back, chan, Goto
<1>2. /\ pc'["receiver"] = "take" /\ pc'["event"] = pc["event"]
      /\ pc'["worker"] = pc["worker"] /\ pc'["sender"] = pc["sender"]
      /\ pc' \in [Thread -> {"wait", "read", "take", "arm", "recheck", "idle", "fill"} \union Busy]
  BY <1>1 DEF ControlInv, Thread
<1>3. TypeOK' /\ ControlInv'
  BY <1>1, <1>2 DEF TypeOK, ControlInv
<1>4. OrderInv'
  BY <1>1, <1>2, Typed DEF OrderInv
<1>5. HandInv' /\ SlotInv'
  <2>1. InHand' = InHand
    BY <1>1, <1>2 DEF InHand
  <2> QED
    BY <1>1, <1>2, <2>1 DEF HandInv, SlotInv
<1>6. RequestNotice' /\ ResponseNotice'
  BY <1>1, <1>2 DEF RequestNotice, ResponseNotice
<1> QED
  BY <1>3, <1>4, <1>5, <1>6

\* The receiver takes responses up to the producer it has read, and not past it.
LEMMA TakeResponseInv ==
  ASSUME IInv, TakeResponse
  PROVE  IInv'
<1> USE DEF IInv
<1>1. /\ pc["receiver"] = "take" /\ ri # rrp /\ ri' = Add(ri, 1)
      /\ UNCHANGED <<reqProd, reqEvent, rspProd, rspEvent, slot, reqProdPvt, rspCons, sent, rrp, pc,
                     reqCons, rspProdPvt, rp, req, owed, old, ans, answerer, pendingBe, pendingFe>>
  BY DEF TakeResponse, page, back, chan
<1>2. TypeOK'
  BY <1>1, Typed, AddOne DEF TypeOK
<1>3. ControlInv' /\ SlotInv' /\ RequestNotice' /\ ResponseNotice'
  BY <1>1 DEF ControlInv, SlotInv, RequestNotice, ResponseNotice
<1>4. OrderInv'
  <2>1. Behind(rrp) < Behind(ri)
    BY <1>1, Typed, DistEqual DEF OrderInv
  <2>2. Behind(ri)' = Behind(ri) - 1
    BY <1>1, <2>1, Typed, DistAddFrom
  <2> QED
    BY <1>1, <2>1, <2>2, Typed DEF OrderInv
<1>5. HandInv'
  <2>1. InHand' = InHand
    BY <1>1 DEF InHand
  <2> QED
    BY <1>1, <2>1 DEF HandInv
<1> QED
  BY <1>2, <1>3, <1>4, <1>5

\* Only here does rsp_cons move on and give slots back to RING_FULL().
LEMMA ResponsesTakenInv ==
  ASSUME IInv, ResponsesTaken
  PROVE  IInv'
<1> USE DEF IInv
<1>1. /\ pc["receiver"] = "take" /\ rspCons' = ri
      /\ pc' = [pc EXCEPT !["receiver"] = IF rspProd # ri THEN "read" ELSE "arm"]
      /\ UNCHANGED <<reqProd, reqEvent, rspProd, rspEvent, slot, reqProdPvt, sent, rrp, ri,
                     reqCons, rspProdPvt, rp, req, owed, old, ans, answerer, pendingBe, pendingFe>>
  BY DEF ResponsesTaken, page, back, chan, Goto
<1>2. /\ pc'["receiver"] \in {"read", "arm"} /\ pc'["event"] = pc["event"]
      /\ pc'["worker"] = pc["worker"] /\ pc'["sender"] = pc["sender"]
      /\ pc' \in [Thread -> {"wait", "read", "take", "arm", "recheck", "idle", "fill"} \union Busy]
  BY <1>1 DEF ControlInv, Thread
<1>3. TypeOK' /\ ControlInv'
  BY <1>1, <1>2 DEF TypeOK, ControlInv
<1>4. OrderInv'
  BY <1>1, <1>2, Typed, Bounds DEF OrderInv
<1>5. HandInv' /\ SlotInv'
  <2>1. InHand' = InHand
    BY <1>1, <1>2 DEF InHand
  <2> QED
    BY <1>1, <1>2, <2>1 DEF HandInv, SlotInv
<1>6. RequestNotice' /\ ResponseNotice'
  BY <1>1, <1>2 DEF RequestNotice, ResponseNotice
<1> QED
  BY <1>3, <1>4, <1>5, <1>6

\* rsp_event asks for the response that comes next.
LEMMA ArmRspEventInv ==
  ASSUME IInv, ArmRspEvent
  PROVE  IInv'
<1> USE DEF IInv
<1>1. /\ pc["receiver"] = "arm" /\ rspEvent' = Add(rspCons, 1)
      /\ pc' = [pc EXCEPT !["receiver"] = "recheck"]
      /\ UNCHANGED <<reqProd, reqEvent, rspProd, slot, reqProdPvt, rspCons, sent, rrp, ri,
                     reqCons, rspProdPvt, rp, req, owed, old, ans, answerer, pendingBe, pendingFe>>
  BY DEF ArmRspEvent, front, back, chan, Goto
<1>2. /\ pc'["receiver"] = "recheck" /\ pc'["event"] = pc["event"]
      /\ pc'["worker"] = pc["worker"] /\ pc'["sender"] = pc["sender"]
      /\ pc' \in [Thread -> {"wait", "read", "take", "arm", "recheck", "idle", "fill"} \union Busy]
  BY <1>1 DEF ControlInv, Thread
<1>3. TypeOK' /\ ControlInv' /\ OrderInv'
  BY <1>1, <1>2, Typed, AddOne DEF TypeOK, ControlInv, OrderInv
<1>4. HandInv' /\ SlotInv'
  <2>1. InHand' = InHand
    BY <1>1, <1>2 DEF InHand
  <2> QED
    BY <1>1, <1>2, <2>1 DEF HandInv, SlotInv
<1>5. RequestNotice' /\ ResponseNotice'
  BY <1>1, <1>2 DEF RequestNotice, ResponseNotice
<1> QED
  BY <1>3, <1>4, <1>5

\* The receiver sleeps only if the look after arming found no response.
LEMMA RecheckResponsesInv ==
  ASSUME IInv, RecheckResponses
  PROVE  IInv'
<1> USE DEF IInv
<1>1. /\ pc["receiver"] = "recheck"
      /\ pc' = [pc EXCEPT !["receiver"] = IF rspProd # rspCons THEN "read" ELSE "wait"]
      /\ UNCHANGED <<reqProd, reqEvent, rspProd, rspEvent, slot, reqProdPvt, rspCons, sent, rrp, ri,
                     reqCons, rspProdPvt, rp, req, owed, old, ans, answerer, pendingBe, pendingFe>>
  BY DEF RecheckResponses, page, front, back, chan, Goto
<1>2. /\ pc'["receiver"] \in {"read", "wait"} /\ pc'["event"] = pc["event"]
      /\ pc'["receiver"] = "wait" => rspProd = rspCons
      /\ pc'["worker"] = pc["worker"] /\ pc'["sender"] = pc["sender"]
      /\ pc' \in [Thread -> {"wait", "read", "take", "arm", "recheck", "idle", "fill"} \union Busy]
  BY <1>1 DEF ControlInv, Thread
<1>3. TypeOK' /\ ControlInv' /\ OrderInv'
  BY <1>1, <1>2 DEF TypeOK, ControlInv, OrderInv
<1>4. HandInv' /\ SlotInv'
  <2>1. InHand' = InHand
    BY <1>1, <1>2 DEF InHand
  <2> QED
    BY <1>1, <1>2, <2>1 DEF HandInv, SlotInv
<1>5. RequestNotice' /\ ResponseNotice'
  BY <1>1, <1>2 DEF RequestNotice, ResponseNotice
<1> QED
  BY <1>3, <1>4, <1>5

-----------------------------------------------------------------------------
(* The event thread *)

\* InHand, thread by thread.
LEMMA InHandIs ==
  /\ InHand = (owed \union (IF pc["event"] = "process" THEN {req} ELSE {}))
              \union ((IF HasAnswer("event") THEN {ans["event"]} ELSE {})
                      \union (IF HasAnswer("worker") THEN {ans["worker"]} ELSE {}))
  /\ InHand' = (owed' \union (IF pc'["event"] = "process" THEN {req'} ELSE {}))
               \union ((IF HasAnswer("event")' THEN {ans'["event"]} ELSE {})
                       \union (IF HasAnswer("worker")' THEN {ans'["worker"]} ELSE {}))
  BY DEF InHand

\* The notification is consumed, and the ring is read after that.
LEMMA PollEventInv ==
  ASSUME IInv, PollEvent
  PROVE  IInv'
<1> USE DEF IInv
<1>1. /\ pc["event"] = "wait" /\ pendingBe' = FALSE /\ pc' = [pc EXCEPT !["event"] = "read"]
      /\ UNCHANGED <<reqProd, reqEvent, rspProd, rspEvent, slot, reqProdPvt, rspCons, sent, rrp, ri,
                     reqCons, rspProdPvt, rp, req, owed, old, ans, answerer, pendingFe>>
  BY DEF PollEvent, page, front, back, Goto
<1>2. /\ pc'["event"] = "read" /\ pc'["receiver"] = pc["receiver"]
      /\ pc'["worker"] = pc["worker"] /\ pc'["sender"] = pc["sender"]
      /\ pc' \in [Thread -> {"wait", "read", "take", "arm", "recheck", "idle", "fill"} \union Busy]
  BY <1>1 DEF ControlInv, Thread
<1>3. TypeOK' /\ ControlInv' /\ OrderInv'
  BY <1>1, <1>2 DEF TypeOK, ControlInv, OrderInv
<1>4. HandInv' /\ SlotInv'
  <2>1. InHand' = InHand
    BY <1>1, <1>2, InHandIs
  <2> QED
    BY <1>1, <1>2, <2>1 DEF HandInv, SlotInv
<1>5. RequestNotice' /\ ResponseNotice'
  BY <1>1, <1>2 DEF RequestNotice, ResponseNotice
<1> QED
  BY <1>3, <1>4, <1>5

\* The frontend is at most Size ahead of the responses: no overflow is seen.
LEMMA ReadReqProdInv ==
  ASSUME IInv, ReadReqProd
  PROVE  IInv'
<1> USE DEF IInv
<1>1. ~(Dist(rspProdPvt, reqProd) > Size)
  <2>1. Dist(rspProdPvt, reqProd) = Behind(rspProdPvt) - Behind(reqProd)
    BY Typed, DistBetween DEF OrderInv
  <2> QED
    BY <2>1, Typed, Bounds DEF OrderInv
<1>2. /\ pc["event"] = "read" /\ rp' = reqProd /\ pc' = [pc EXCEPT !["event"] = "take"]
      /\ UNCHANGED <<reqProd, reqEvent, rspProd, rspEvent, slot, reqProdPvt, rspCons, sent, rrp, ri,
                     reqCons, rspProdPvt, req, owed, old, ans, answerer, pendingBe, pendingFe>>
  BY <1>1 DEF ReadReqProd, ReadProd, page, front, chan, Goto
<1>3. /\ pc'["event"] = "take" /\ pc'["receiver"] = pc["receiver"]
      /\ pc'["worker"] = pc["worker"] /\ pc'["sender"] = pc["sender"]
      /\ pc' \in [Thread -> {"wait", "read", "take", "arm", "recheck", "idle", "fill"} \union Busy]
  BY <1>2 DEF ControlInv, Thread
<1>4. TypeOK' /\ ControlInv'
  BY <1>2, <1>3 DEF TypeOK, ControlInv
<1>5. OrderInv'
  BY <1>2, <1>3, Typed DEF OrderInv
<1>6. HandInv' /\ SlotInv'
  <2>1. InHand' = InHand
    BY <1>2, <1>3, InHandIs
  <2> QED
    BY <1>2, <1>3, <2>1 DEF HandInv, SlotInv
<1>7. RequestNotice' /\ ResponseNotice'
  BY <1>2, <1>3 DEF RequestNotice, ResponseNotice
<1> QED
  BY <1>4, <1>5, <1>6, <1>7

\* The requests in hand are finitely many, being some of the first that were taken.
LEMMA HandFinite ==
  ASSUME IInv
  PROVE  IsFiniteSet(InHand)
<1>1. Before(reqCons) \in Int
  BY Typed DEF IInv
<1>2. IsFiniteSet(1..Before(reqCons))
  BY <1>1, FS_Interval
<1> QED
  BY <1>2, FS_Subset DEF IInv, HandInv

\* While a request waits in its slot the responses are less than Size behind it,
\* and what the slot holds is the request that is next.
LEMMA NextRequest ==
  ASSUME IInv, reqCons # reqProdPvt
  PROVE  /\ slot[reqCons % Size] = Request(Before(reqCons) + 1)
         /\ Before(reqCons) + 1 \in 1..sent
         /\ Dist(rspProdPvt, reqCons) < Size
<1> USE DEF IInv
<1>1. /\ Behind(reqCons) \in Int /\ Behind(reqCons) > 0 /\ Behind(reqCons) <= sent
      /\ Behind(rspProdPvt) \in Int /\ Behind(rspProdPvt) <= Size /\ sent \in Int /\ Size \in Int
  BY Typed, Bounds DEF OrderInv
<1>2. Before(reqCons) + 1 \in Before(reqCons) + 1..sent
  BY <1>1
<1>3. (Before(reqCons) + 1) - 1 = Before(reqCons)
  BY <1>1
<1>4. slot[Before(reqCons) % Size] = Request(Before(reqCons) + 1)
  BY <1>2, <1>3 DEF SlotInv
<1>5. Dist(rspProdPvt, reqCons) = Behind(rspProdPvt) - Behind(reqCons)
  BY Typed, DistBetween DEF OrderInv
<1> QED
  BY <1>1, <1>4, <1>5, SlotOf, Typed

\* The request that is taken is the next one, and in no other hand.
LEMMA TakeRequestInv ==
  ASSUME IInv, TakeRequest
  PROVE  IInv'
<1> USE DEF IInv
<1>1. /\ Behind(rp) < Behind(reqCons) /\ reqCons # reqProdPvt
  <2>1. reqCons # rp /\ pc["event"] = "take"
    BY DEF TakeRequest
  <2> QED
    BY <2>1, Typed, DistEqual DEF OrderInv
<1>2. /\ pc["event"] = "take" /\ pc' = [pc EXCEPT !["event"] = "process"]
      /\ req' = Before(reqCons) + 1 /\ reqCons' = Add(reqCons, 1)
      /\ UNCHANGED <<reqProd, reqEvent, rspProd, rspEvent, slot, reqProdPvt, rspCons, sent, rrp, ri,
                     rspProdPvt, rp, owed, old, ans, answerer, pendingBe, pendingFe>>
  <2>1. slot[reqCons % Size].id = Before(reqCons) + 1 /\ ~(Dist(rspProdPvt, reqCons) >= Size)
    <3>1. Dist(rspProdPvt, reqCons) \in Int
      BY Typed, DistCases, IndexInt
    <3> QED
      BY <1>1, <3>1, NextRequest, Bounds DEF Request
  <2> QED
    BY <2>1 DEF TakeRequest, page, front, chan, Goto
<1>3. /\ pc'["event"] = "process" /\ pc'["receiver"] = pc["receiver"]
      /\ pc'["worker"] = pc["worker"] /\ pc'["sender"] = pc["sender"]
      /\ pc' \in [Thread -> {"wait", "read", "take", "arm", "recheck", "idle", "fill"} \union Busy]
  BY <1>2 DEF ControlInv, Thread
<1>4. Behind(reqCons)' = Behind(reqCons) - 1 /\ Before(reqCons)' = Before(reqCons) + 1
  BY <1>2, <1>1, Typed, DistAddFrom
<1>5. Before(reqCons) + 1 \in 1..sent
  BY <1>1, NextRequest
<1>6. TypeOK'
  <2>1. req' \in 0..MaxRequests
    <3>1. req' \in 1..sent /\ sent \in 0..MaxRequests /\ MaxRequests \in Int
      BY <1>2, <1>5, Bounds DEF TypeOK
    <3> QED
      BY <3>1
  <2> QED
    BY <1>2, <1>3, <2>1, Typed, AddOne DEF TypeOK
<1>7. ControlInv'
  BY <1>2, <1>3 DEF ControlInv
<1>8. OrderInv'
  BY <1>2, <1>3, <1>4, <1>1, Typed DEF OrderInv
<1>9. HandInv'
  <2>1. InHand' = InHand \union {req'}
    BY <1>2, <1>3, InHandIs
  <2>2. Before(reqCons) \in Int /\ InHand \subseteq 1..Before(reqCons)
    BY Typed DEF HandInv
  <2>3. req' \notin InHand
    BY <1>2, <2>2
  <2>4. InHand' \subseteq 1..Before(reqCons)'
    <3>1. 1..Before(reqCons)' = (1..Before(reqCons)) \union {Before(reqCons) + 1}
      BY <1>4, <1>5, <2>2
    <3> QED
      BY <1>2, <2>1, <2>2, <3>1
  <2>5. Cardinality(InHand') = Cardinality(InHand) + 1
    BY <2>1, <2>3, HandFinite, FS_AddElement
  <2>6. Cardinality(InHand)' = Behind(rspProd)' - Behind(reqCons)'
    BY <1>2, <1>4, <2>5, Typed DEF HandInv
  <2>7. owed \subseteq InHand /\ (HasAnswer("worker") => ans["worker"] \in InHand)
    BY InHandIs
  <2> QED
    BY <1>2, <1>3, <1>4, <2>3, <2>4, <2>6, <2>7 DEF HandInv
<1>10. SlotInv'
  <2>1. Before(reqCons)' + 1..sent' \subseteq Before(reqCons) + 1..sent
    BY <1>2, <1>4, Typed
  <2> QED
    BY <1>2, <1>3, <2>1 DEF SlotInv
<1>11. RequestNotice' /\ ResponseNotice'
  BY <1>2, <1>3 DEF RequestNotice, ResponseNotice
<1> QED
  BY <1>6, <1>7, <1>8, <1>9, <1>10, <1>11

\* The request goes from one hand to another.
LEMMA ProcessRequestInv ==
  ASSUME IInv, ProcessRequest
  PROVE  IInv'
<1> USE DEF IInv
<1>1. /\ pc["event"] = "process"
      /\ UNCHANGED <<reqProd, reqEvent, rspProd, rspEvent, slot, reqProdPvt, rspCons, sent, rrp, ri,
                     reqCons, rspProdPvt, rp, req, old, answerer, pendingBe, pendingFe>>
  BY DEF ProcessRequest, page, front, chan
<1>2. CASE /\ answerer = "event" /\ ans' = [ans EXCEPT !["event"] = req] /\ UNCHANGED owed
           /\ pc' = [pc EXCEPT !["event"] = "response"]
  <2>1. /\ pc'["event"] = "response" /\ pc'["receiver"] = pc["receiver"]
        /\ pc'["worker"] = pc["worker"] /\ pc'["sender"] = pc["sender"]
        /\ ans'["event"] = req /\ ans'["worker"] = ans["worker"]
        /\ ans' \in [Thread -> 0..MaxRequests]
        /\ pc' \in [Thread -> {"wait", "read", "take", "arm", "recheck", "idle", "fill"} \union Busy]
    BY <1>2 DEF ControlInv, TypeOK, Thread
  <2>2. TypeOK' /\ ControlInv' /\ OrderInv'
    BY <1>1, <1>2, <2>1 DEF TypeOK, ControlInv, OrderInv
  <2>3. InHand' = InHand
    BY <1>1, <1>2, <2>1, InHandIs
  <2>4. HandInv' /\ SlotInv'
    BY <1>1, <1>2, <2>1, <2>3 DEF HandInv, SlotInv
  <2>5. RequestNotice' /\ ResponseNotice'
    BY <1>1, <2>1 DEF RequestNotice, ResponseNotice
  <2> QED
    BY <2>2, <2>4, <2>5
<1>3. CASE /\ answerer = "worker" /\ owed' = owed \union {req} /\ UNCHANGED ans
           /\ pc' = [pc EXCEPT !["event"] = "take"]
  <2>1. /\ pc'["event"] = "take" /\ pc'["receiver"] = pc["receiver"]
        /\ pc'["worker"] = pc["worker"] /\ pc'["sender"] = pc["sender"]
        /\ pc' \in [Thread -> {"wait", "read", "take", "arm", "recheck", "idle", "fill"} \union Busy]
    BY <1>3 DEF ControlInv, Thread
  <2>2. TypeOK'
    <3>1. req \in InHand /\ InHand \subseteq 1..Before(reqCons)
      BY <1>1, InHandIs DEF HandInv
    <3>2. req \in 1..MaxRequests
      BY <3>1, Typed DEF TypeOK
    <3> QED
      BY <1>1, <1>3, <2>1, <3>2 DEF TypeOK
  <2>3. ControlInv' /\ OrderInv'
    BY <1>1, <1>3, <2>1 DEF ControlInv, OrderInv
  <2>4. InHand' = InHand
    BY <1>1, <1>3, <2>1, InHandIs
  <2>5. HandInv' /\ SlotInv'
    BY <1>1, <1>3, <2>1, <2>4 DEF HandInv, SlotInv
  <2>6. RequestNotice' /\ ResponseNotice'
    BY <1>1, <2>1 DEF RequestNotice, ResponseNotice
  <2> QED
    BY <2>2, <2>3, <2>5, <2>6
<1> QED
  BY <1>2, <1>3 DEF ProcessRequest, Goto

\* The first look decides nothing: the thread reads again or arms the event.
LEMMA FinalCheckInv ==
  ASSUME IInv, FinalCheck
  PROVE  IInv'
<1> USE DEF IInv
<1>1. /\ pc["event"] = "take"
      /\ pc' = [pc EXCEPT !["event"] = IF Unconsumed THEN "read" ELSE "arm"]
      /\ UNCHANGED <<reqProd, reqEvent, rspProd, rspEvent, slot, reqProdPvt, rspCons, sent, rrp, ri,
                     reqCons, rspProdPvt, rp, req, owed, old, ans, answerer, pendingBe, pendingFe>>
  BY DEF FinalCheck, Consumed, page, front, back, chan, Goto
<1>2. /\ pc'["event"] \in {"read", "arm"} /\ pc'["receiver"] = pc["receiver"]
      /\ pc'["worker"] = pc["worker"] /\ pc'["sender"] = pc["sender"]
      /\ pc' \in [Thread -> {"wait", "read", "take", "arm", "recheck", "idle", "fill"} \union Busy]
  BY <1>1 DEF ControlInv, Thread
<1>3. TypeOK' /\ ControlInv' /\ OrderInv'
  BY <1>1, <1>2 DEF TypeOK, ControlInv, OrderInv
<1>4. HandInv' /\ SlotInv'
  <2>1. InHand' = InHand
    BY <1>1, <1>2, InHandIs
  <2> QED
    BY <1>1, <1>2, <2>1 DEF HandInv, SlotInv
<1>5. RequestNotice' /\ ResponseNotice'
  BY <1>1, <1>2 DEF RequestNotice, ResponseNotice
<1> QED
  BY <1>3, <1>4, <1>5

\* req_event asks for the request that comes next.
LEMMA ArmReqEventInv ==
  ASSUME IInv, ArmReqEvent
  PROVE  IInv'
<1> USE DEF IInv
<1>1. /\ pc["event"] = "arm" /\ reqEvent' = Add(reqCons, 1)
      /\ pc' = [pc EXCEPT !["event"] = "recheck"]
      /\ UNCHANGED <<reqProd, rspProd, rspEvent, slot, reqProdPvt, rspCons, sent, rrp, ri,
                     reqCons, rspProdPvt, rp, req, owed, old, ans, answerer, pendingBe, pendingFe>>
  BY DEF ArmReqEvent, front, back, chan, Goto
<1>2. /\ pc'["event"] = "recheck" /\ pc'["receiver"] = pc["receiver"]
      /\ pc'["worker"] = pc["worker"] /\ pc'["sender"] = pc["sender"]
      /\ pc' \in [Thread -> {"wait", "read", "take", "arm", "recheck", "idle", "fill"} \union Busy]
  BY <1>1 DEF ControlInv, Thread
<1>3. TypeOK' /\ ControlInv' /\ OrderInv'
  BY <1>1, <1>2, Typed, AddOne DEF TypeOK, ControlInv, OrderInv
<1>4. HandInv' /\ SlotInv'
  <2>1. InHand' = InHand
    BY <1>1, <1>2, InHandIs
  <2> QED
    BY <1>1, <1>2, <2>1 DEF HandInv, SlotInv
<1>5. RequestNotice' /\ ResponseNotice'
  BY <1>1, <1>2 DEF RequestNotice, ResponseNotice
<1> QED
  BY <1>3, <1>4, <1>5

\* When the look after arming finds nothing, nothing is there: the ring can only
\* be full of requests in hand if every request is taken.
LEMMA RecheckRequestsInv ==
  ASSUME IInv, RecheckRequests
  PROVE  IInv'
<1> USE DEF IInv
<1>1. ~Unconsumed => reqProd = reqCons
  <2>1. /\ Dist(rspProdPvt, reqCons) = Behind(rspProdPvt) - Behind(reqCons)
        /\ Dist(reqCons, reqProd) = Behind(reqCons) - Behind(reqProd)
    BY Typed, DistBetween DEF OrderInv
  <2>2. Behind(reqCons) = Behind(reqProd) => reqProd = reqCons
    BY Typed, DistEqual
  <2> QED
    BY <2>1, <2>2, Typed, Bounds DEF Unconsumed, OrderInv
<1>2. /\ pc["event"] = "recheck"
      /\ pc' = [pc EXCEPT !["event"] = IF Unconsumed THEN "read" ELSE "wait"]
      /\ UNCHANGED <<reqProd, reqEvent, rspProd, rspEvent, slot, reqProdPvt, rspCons, sent, rrp, ri,
                     reqCons, rspProdPvt, rp, req, owed, old, ans, answerer, pendingBe, pendingFe>>
  BY DEF RecheckRequests, page, front, back, chan, Goto
<1>3. /\ pc'["event"] \in {"read", "wait"} /\ pc'["receiver"] = pc["receiver"]
      /\ pc'["event"] = "wait" => reqProd = reqCons
      /\ pc'["worker"] = pc["worker"] /\ pc'["sender"] = pc["sender"]
      /\ pc' \in [Thread -> {"wait", "read", "take", "arm", "recheck", "idle", "fill"} \union Busy]
  BY <1>2, <1>1 DEF ControlInv, Thread
<1>4. TypeOK' /\ ControlInv' /\ OrderInv'
  BY <1>2, <1>3 DEF TypeOK, ControlInv, OrderInv
<1>5. HandInv' /\ SlotInv'
  <2>1. InHand' = InHand
    BY <1>2, <1>3, InHandIs
  <2> QED
    BY <1>2, <1>3, <2>1 DEF HandInv, SlotInv
<1>6. RequestNotice' /\ ResponseNotice'
  BY <1>2, <1>3 DEF RequestNotice, ResponseNotice
<1> QED
  BY <1>4, <1>5, <1>6

-----------------------------------------------------------------------------
(* sendResponse() *)

\* The worker has one more at hand and one less to answer.
LEMMA PickResponseInv ==
  ASSUME IInv, PickResponse
  PROVE  IInv'
<1> USE DEF IInv
<1> PICK n \in owed : ans' = [ans EXCEPT !["worker"] = n] /\ owed' = owed \ {n}
  BY DEF PickResponse
<1>1. /\ pc["worker"] = "idle" /\ pc' = [pc EXCEPT !["worker"] = "response"]
      /\ UNCHANGED <<reqProd, reqEvent, rspProd, rspEvent, slot, reqProdPvt, rspCons, sent, rrp, ri,
                     reqCons, rspProdPvt, rp, req, old, answerer, pendingBe, pendingFe>>
  BY DEF PickResponse, page, front, chan, Goto
<1>2. /\ pc'["worker"] = "response" /\ pc'["receiver"] = pc["receiver"]
      /\ pc'["event"] = pc["event"] /\ pc'["sender"] = pc["sender"]
      /\ pc' \in [Thread -> {"wait", "read", "take", "arm", "recheck", "idle", "fill"} \union Busy]
  BY <1>1 DEF ControlInv, Thread
<1>3. /\ ans'["worker"] = n /\ ans'["event"] = ans["event"]
      /\ ans' \in [Thread -> 0..MaxRequests]
  BY Bounds DEF TypeOK, Thread
<1>4. answerer = "worker"
  BY DEF ControlInv, TypeOK
<1>5. TypeOK' /\ ControlInv' /\ OrderInv'
  BY <1>1, <1>2, <1>3, <1>4 DEF TypeOK, ControlInv, OrderInv
<1>6. InHand' = InHand
  BY <1>1, <1>2, <1>3, InHandIs
<1>7. HandInv' /\ SlotInv'
  BY <1>1, <1>2, <1>3, <1>6 DEF HandInv, SlotInv
<1>8. RequestNotice' /\ ResponseNotice'
  BY <1>1, <1>2 DEF RequestNotice, ResponseNotice
<1> QED
  BY <1>5, <1>7, <1>8

\* Only one thread is in sendResponse(): the client's.
LEMMA OneAnswers ==
  ASSUME IInv, NEW t \in Answerer, pc[t] \in {"response", "push", "check"}
  PROVE  /\ \A u \in Answerer : u # t => pc[u] \notin {"response", "push", "check"}
         /\ t = "event" => answerer = "event" /\ owed = {}
         /\ t = "worker" => answerer = "worker"
  BY DEF IInv, ControlInv, TypeOK

\* Who answers a request holds it, so that the responses are behind the requests.
LEMMA AnswersWhatItHolds ==
  ASSUME IInv, NEW t \in Answerer, HasAnswer(t)
  PROVE  /\ ans[t] \in InHand
         /\ Behind(rspProd) > Behind(reqCons)
<1> USE DEF IInv
<1>1. ans[t] \in InHand
  BY InHandIs
<1>2. Cardinality(InHand) \in Nat /\ Cardinality(InHand) # 0
  BY <1>1, HandFinite, FS_CardinalityType, FS_EmptySet
<1> QED
  BY <1>1, <1>2, Typed DEF HandInv

\* The response goes over a request that has been taken.
LEMMA PutResponseInv ==
  ASSUME IInv, NEW t \in Answerer, PutResponse(t)
  PROVE  IInv'
<1> USE DEF IInv
<1>1. /\ pc[t] = "response" /\ pc' = [pc EXCEPT ![t] = "push"]
      /\ slot' = [slot EXCEPT ![rspProdPvt % Size] = Response(ans[t])]
      /\ rspProdPvt' = Add(rspProdPvt, 1)
      /\ UNCHANGED <<reqProd, reqEvent, rspProd, rspEvent, reqProdPvt, rspCons, sent, rrp, ri,
                     reqCons, rp, req, owed, old, ans, answerer, pendingBe, pendingFe>>
  BY DEF PutResponse, PutAt, front, chan, Goto
<1>2. /\ pc'[t] = "push" /\ \A u \in Thread \ {t} : pc'[u] = pc[u]
      /\ pc'["sender"] = pc["sender"] /\ pc'["receiver"] = pc["receiver"]
      /\ pc' \in [Thread -> {"wait", "read", "take", "arm", "recheck", "idle", "fill"} \union Busy]
  BY <1>1 DEF ControlInv, Thread
<1>3. /\ \A u \in Answerer : u # t => pc[u] \notin {"response", "push", "check"}
      /\ t = "event" => answerer = "event" /\ owed = {}
      /\ t = "worker" => answerer = "worker"
  BY <1>1, OneAnswers
<1>4. rspProdPvt = rspProd /\ Behind(rspProdPvt) > Behind(reqCons)
  BY <1>1, <1>3, AnswersWhatItHolds DEF HandInv
<1>5. Behind(rspProdPvt)' = Behind(rspProdPvt) - 1
  BY <1>1, <1>4, Typed, DistAddFrom
<1>6. TypeOK'
  <2>1. Response(ans[t]) \in [kind : {"req", "rsp"}, id : 0..MaxRequests]
    BY DEF Response, TypeOK, Thread
  <2>2. slot' \in [0..Size - 1 -> [kind : {"req", "rsp"}, id : 0..MaxRequests]]
    BY <1>1, <2>1 DEF TypeOK
  <2>3. pc'["event"] \in {"wait", "read", "take", "process", "response", "push", "check",
                          "arm", "recheck", "failed"}
    BY <1>2 DEF TypeOK, Thread
  <2> QED
    BY <1>1, <2>2, <2>3, Typed, AddOne DEF TypeOK
<1>7. ControlInv'
  BY <1>1, <1>2, <1>3 DEF ControlInv, Thread
<1>8. OrderInv'
  <2>1. /\ pc'["event"] \in {"take"} \union Busy => pc["event"] \in {"take"} \union Busy
    BY <1>1, <1>2 DEF Thread
  <2> QED
    BY <1>1, <1>2, <1>4, <1>5, <2>1, Typed DEF OrderInv
<1>9. HandInv'
  <2>1. /\ HasAnswer("event") <=> HasAnswer("event")'
        /\ HasAnswer("worker") <=> HasAnswer("worker")'
        /\ pc["event"] = "process" <=> pc'["event"] = "process"
    BY <1>1, <1>2 DEF Thread
  <2>2. InHand' = InHand
    BY <1>1, <2>1, InHandIs
  <2>3. \A u \in Answerer : pc'[u] = "push" <=> u = t
    BY <1>2, <1>3 DEF Thread
  <2> QED
    BY <1>1, <1>4, <2>1, <2>2, <2>3 DEF HandInv
<1>10. SlotInv'
  <2>1. rspProdPvt % Size = Before(rspProdPvt) % Size
    BY Typed, SlotOf
  <2>2. /\ Behind(rspProdPvt) \in Int /\ Behind(reqCons) \in Int /\ sent \in Int /\ Size \in Int
        /\ Behind(rspProdPvt) <= Size
    BY Typed, Bounds DEF OrderInv
  <2>3. ASSUME NEW n \in Before(reqCons) + 1..sent
        PROVE  slot'[(n - 1) % Size] = Request(n)
    <3>1. /\ Before(rspProdPvt) \in Int /\ n - 1 \in Int
          /\ Before(rspProdPvt) < n - 1 /\ (n - 1) - Before(rspProdPvt) < Size
      BY <1>4, <2>2
    <3>2. (n - 1) % Size # rspProdPvt % Size
      BY <2>1, <3>1, SlotsDiffer
    <3> QED
      BY <1>1, <3>2 DEF SlotInv, TypeOK
  <2>4. ASSUME NEW u \in Answerer, pc'[u] = "push"
        PROVE  slot'[rspProd % Size] = Response(ans[u])
    <3>1. u = t
      BY <1>2, <1>3, <2>4 DEF Thread
    <3>2. rspProd \in Int
      BY Typed, IndexInt
    <3>3. rspProd % Size \in 0..Size - 1
      BY <3>2, SlotRange
    <3> QED
      BY <1>1, <1>4, <3>1, <3>3 DEF TypeOK
  <2> QED
    BY <1>1, <2>3, <2>4 DEF SlotInv
<1>11. RequestNotice' /\ ResponseNotice'
  <2>1. /\ pc'["event"] = "wait" <=> pc["event"] = "wait"
        /\ pc'["event"] = "recheck" <=> pc["event"] = "recheck"
        /\ \A u \in Answerer : pc'[u] = "check" <=> pc[u] = "check"
    BY <1>1, <1>2 DEF Thread
  <2> QED
    BY <1>1, <1>2, <2>1 DEF RequestNotice, ResponseNotice
<1> QED
  BY <1>6, <1>7, <1>8, <1>9, <1>10, <1>11

\* The answer that is pushed is in no other hand.
LEMMA PushedHand ==
  ASSUME IInv, NEW t \in Answerer, PushResponses(t)
  PROVE  InHand' = InHand \ {ans[t]}
<1> USE DEF IInv
<1>1. /\ pc[t] = "push" /\ pc' = [pc EXCEPT ![t] = "check"] /\ UNCHANGED <<req, owed, ans>>
  BY DEF PushResponses, Goto
<1>2. pc'[t] = "check" /\ \A u \in Thread \ {t} : pc'[u] = pc[u]
  BY <1>1 DEF ControlInv, Thread
<1>3. /\ \A u \in Answerer : u # t => pc[u] \notin {"response", "push", "check"}
      /\ t = "event" => answerer = "event" /\ owed = {}
  BY <1>1, OneAnswers
<1>4. CASE t = "event"
  <2>1. /\ pc["event"] # "process" /\ HasAnswer("event") /\ ~HasAnswer("worker") /\ owed = {}
        /\ pc'["event"] # "process" /\ ~HasAnswer("event")' /\ ~HasAnswer("worker")'
    BY <1>1, <1>2, <1>3, <1>4 DEF Thread
  <2> QED
    BY <1>1, <1>4, <2>1, InHandIs
<1>5. CASE t = "worker"
  <2>1. /\ HasAnswer("worker") /\ ~HasAnswer("event")
        /\ ~HasAnswer("event")' /\ ~HasAnswer("worker")'
        /\ pc["event"] = "process" <=> pc'["event"] = "process"
    BY <1>1, <1>2, <1>3, <1>5 DEF Thread
  <2>2. ans[t] \notin owed /\ (pc["event"] = "process" => ans[t] # req)
    BY <1>5, <2>1 DEF HandInv
  <2> QED
    BY <1>1, <1>5, <2>1, <2>2, InHandIs
<1> QED
  BY <1>4, <1>5

\* With the push the answer leaves the hand; a receiver that slept is to be
\* notified of this one, unless it already was of one before.
LEMMA PushResponsesInv ==
  ASSUME IInv, NEW t \in Answerer, PushResponses(t)
  PROVE  IInv'
<1> USE DEF IInv
<1>1. /\ pc[t] = "push" /\ pc' = [pc EXCEPT ![t] = "check"]
      /\ old' = [old EXCEPT ![t] = rspProd] /\ rspProd' = rspProdPvt
      /\ UNCHANGED <<reqProd, reqEvent, rspEvent, slot, reqProdPvt, rspCons, sent, rrp, ri,
                     reqCons, rspProdPvt, rp, req, owed, ans, answerer, pendingBe, pendingFe>>
  BY DEF PushResponses, front, chan, Goto
<1>2. /\ pc'[t] = "check" /\ \A u \in Thread \ {t} : pc'[u] = pc[u]
      /\ pc'["sender"] = pc["sender"] /\ pc'["receiver"] = pc["receiver"]
      /\ old'[t] = rspProd /\ old' \in [Thread -> Index] /\ old'["sender"] = old["sender"]
      /\ pc' \in [Thread -> {"wait", "read", "take", "arm", "recheck", "idle", "fill"} \union Busy]
  BY <1>1, Typed DEF ControlInv, Thread, TypeOK
<1>3. /\ \A u \in Answerer : u # t => pc[u] \notin {"response", "push", "check"}
      /\ t = "event" => answerer = "event" /\ owed = {}
      /\ t = "worker" => answerer = "worker"
  BY <1>1, OneAnswers
<1>4. /\ rspProdPvt = Add(rspProd, 1) /\ ans[t] \in InHand
      /\ Behind(rspProd) > Behind(reqCons)
  BY <1>1, AnswersWhatItHolds DEF HandInv
<1>5. Behind(rspProd)' = Behind(rspProd) - 1
  BY <1>1, <1>4, Typed, DistAddFrom
<1>6. TypeOK'
  <2>1. pc'["event"] \in {"wait", "read", "take", "process", "response", "push", "check",
                          "arm", "recheck", "failed"}
    BY <1>2 DEF TypeOK, Thread
  <2> QED
    BY <1>1, <1>2, <2>1, Typed DEF TypeOK
<1>7. ControlInv'
  BY <1>1, <1>2, <1>3 DEF ControlInv, Thread
<1>8. OrderInv'
  <2>1. /\ pc'["event"] \in {"take"} \union Busy => pc["event"] \in {"take"} \union Busy
    BY <1>1, <1>2 DEF Thread
  <2> QED
    BY <1>1, <1>2, <1>4, <1>5, <2>1, Typed DEF OrderInv
<1>9. HandInv'
  <2>1. \A u \in Answerer : pc'[u] # "push"
    BY <1>2, <1>3 DEF Thread
  <2>2. InHand' = InHand \ {ans[t]}
    BY PushedHand
  <2>3. Cardinality(InHand') = Cardinality(InHand) - 1
    BY <1>4, <2>2, HandFinite, FS_RemoveElement
  <2>4. Cardinality(InHand)' = Behind(rspProd)' - Behind(reqCons)'
    BY <1>1, <1>5, <2>3, Typed DEF HandInv
  <2>5. /\ HasAnswer("worker")' => HasAnswer("worker")
        /\ pc["event"] = "process" <=> pc'["event"] = "process"
    BY <1>1, <1>2 DEF Thread
  <2> QED
    BY <1>1, <2>1, <2>2, <2>4, <2>5 DEF HandInv
<1>10. SlotInv'
  <2>1. \A u \in Answerer : pc'[u] # "push"
    BY <1>2, <1>3 DEF Thread
  <2> QED
    BY <1>1, <2>1 DEF SlotInv
<1>11. RequestNotice'
  <2>1. /\ pc'["event"] = "wait" <=> pc["event"] = "wait"
        /\ pc'["event"] = "recheck" <=> pc["event"] = "recheck"
    BY <1>1, <1>2 DEF Thread
  <2> QED
    BY <1>1, <1>2, <2>1 DEF RequestNotice
<1>12. ResponseNotice'
  <2>1. \A u \in Answerer : pc'[u] = "check" <=> u = t
    BY <1>2, <1>3 DEF Thread
  <2>2. \A u \in Answerer : pc[u] # "check"
    BY <1>1, <1>3
  <2> QED
    BY <1>1, <1>2, <1>4, <2>1, <2>2 DEF ResponseNotice
<1> QED
  BY <1>6, <1>7, <1>8, <1>9, <1>10, <1>11, <1>12

\* rsp_event of a receiver that sleeps is the response just pushed, if it slept
\* over this one.
LEMMA NotifyFrontendInv ==
  ASSUME IInv, NEW t \in Answerer, NotifyFrontend(t)
  PROVE  IInv'
<1> USE DEF IInv
<1>1. /\ pc[t] = "check"
      /\ pendingFe' = (pendingFe \/ Dist(rspEvent, rspProd) < Dist(old[t], rspProd))
      /\ pc' = [pc EXCEPT ![t] = IF t = "event" THEN "take" ELSE "idle"]
      /\ UNCHANGED <<reqProd, reqEvent, rspProd, rspEvent, slot, reqProdPvt, rspCons, sent, rrp, ri,
                     reqCons, rspProdPvt, rp, req, owed, old, ans, answerer, pendingBe>>
  BY DEF NotifyFrontend, page, front, back, Goto
<1>2. /\ pc'[t] = (IF t = "event" THEN "take" ELSE "idle")
      /\ \A u \in Thread \ {t} : pc'[u] = pc[u]
      /\ pc'["sender"] = pc["sender"] /\ pc'["receiver"] = pc["receiver"]
      /\ pc' \in [Thread -> {"wait", "read", "take", "arm", "recheck", "idle", "fill"} \union Busy]
  BY <1>1 DEF ControlInv, Thread
<1>3. /\ \A u \in Answerer : u # t => pc[u] \notin {"response", "push", "check"}
      /\ t = "event" => answerer = "event" /\ owed = {}
      /\ t = "worker" => answerer = "worker"
  BY <1>1, OneAnswers
<1>4. TypeOK'
  <2>1. pc'["event"] \in {"wait", "read", "take", "process", "response", "push", "check",
                          "arm", "recheck", "failed"}
    BY <1>2 DEF TypeOK, Thread
  <2> QED
    BY <1>1, <2>1 DEF TypeOK
<1>5. ControlInv'
  BY <1>1, <1>2, <1>3 DEF ControlInv, Thread
<1>6. OrderInv'
  <2>1. /\ pc'["event"] \in {"take"} \union Busy => pc["event"] \in {"take"} \union Busy
    BY <1>1, <1>2 DEF Thread
  <2> QED
    BY <1>1, <1>2, <2>1 DEF OrderInv
<1>7. HandInv' /\ SlotInv'
  <2>1. /\ HasAnswer("event") <=> HasAnswer("event")'
        /\ HasAnswer("worker") <=> HasAnswer("worker")'
        /\ pc["event"] = "process" <=> pc'["event"] = "process"
        /\ \A u \in Answerer : pc[u] = "push" <=> pc'[u] = "push"
    BY <1>1, <1>2 DEF Thread
  <2>2. InHand' = InHand
    BY <1>1, <2>1, InHandIs
  <2> QED
    BY <1>1, <2>1, <2>2 DEF HandInv, SlotInv
<1>8. RequestNotice'
  <2>1. /\ pc'["event"] = "wait" <=> pc["event"] = "wait"
        /\ pc'["event"] = "recheck" <=> pc["event"] = "recheck"
    BY <1>1, <1>2 DEF Thread
  <2> QED
    BY <1>1, <1>2, <2>1 DEF RequestNotice
<1>9. ResponseNotice'
  <2>1. \A u \in Answerer : pc'[u] # "check"
    BY <1>2, <1>3 DEF Thread
  <2>2. ASSUME pc["receiver"] = "wait", rspProd # rspCons, ~pendingFe
        PROVE  Dist(rspEvent, rspProd) < Dist(old[t], rspProd)
    <3>1. /\ rspEvent = Add(rspCons, 1) /\ rspProd = Add(old[t], 1) /\ old[t] = rspCons
      BY <1>1, <1>3, <2>2 DEF ResponseNotice
    <3>2. rspEvent = rspProd /\ Dist(rspEvent, rspProd) = 0
      BY <3>1, Typed, DistZero
    <3>3. Dist(old[t], rspProd) # 0 /\ Dist(old[t], rspProd) \in Int /\ Dist(old[t], rspProd) >= 0
      BY <2>2, <3>1, Typed, DistZero, DistCases, IndexInt
    <3> QED
      BY <3>2, <3>3
  <2> QED
    BY <1>1, <1>2, <2>1, <2>2 DEF ResponseNotice
<1> QED
  BY <1>4, <1>5, <1>6, <1>7, <1>8, <1>9

-----------------------------------------------------------------------------
(* The theorems *)

\* A step of Quiet, or of a system around this one
LEMMA StutterInv == IInv /\ UNCHANGED vars => IInv'
<1> SUFFICES ASSUME IInv, UNCHANGED vars PROVE IInv'
  OBVIOUS
<1>1. UNCHANGED <<reqProd, reqEvent, rspProd, rspEvent, slot, reqProdPvt, rspCons, sent, rrp, ri,
                  reqCons, rspProdPvt, rp, req, owed, old, ans, pendingBe, pendingFe, answerer, pc>>
  BY DEF vars, page, front, back, chan
<1>2. InHand' = InHand
  BY <1>1 DEF InHand
<1> QED
  <2>1. TypeOK'
    BY <1>1 DEF IInv, TypeOK
  <2>2. ControlInv'
    BY <1>1 DEF IInv, ControlInv
  <2>3. OrderInv'
    BY <1>1 DEF IInv, OrderInv
  <2>4. HandInv' /\ SlotInv'
    BY <1>1, <1>2 DEF IInv, HandInv, SlotInv
  <2>5. RequestNotice' /\ ResponseNotice'
    BY <1>1 DEF IInv, RequestNotice, ResponseNotice
  <2> QED
    BY <2>1, <2>2, <2>3, <2>4, <2>5 DEF IInv

\* IInv is inductive.
LEMMA NextInv == IInv /\ [Next]_vars => IInv'
<1> SUFFICES ASSUME IInv, [Next]_vars PROVE IInv'
  OBVIOUS
<1>1. CASE FillRequest
  BY <1>1, FillInv
<1>2. CASE SenderStep
  BY <1>2, PushRequestsInv, NotifyBackendInv DEF SenderStep
<1>3. CASE ReceiverStep
  BY <1>3, ReceiveEventInv, ReadRspProdInv, TakeResponseInv, ResponsesTakenInv, ArmRspEventInv,
     RecheckResponsesInv DEF ReceiverStep
<1>4. CASE EventStep
  BY <1>4, PollEventInv, ReadReqProdInv, TakeRequestInv, ProcessRequestInv, FinalCheckInv,
     ArmReqEventInv, RecheckRequestsInv DEF EventStep
<1>5. CASE PickResponse
  BY <1>5, PickResponseInv
<1>6. CASE \E t \in {"event", "worker"} : ResponseStep(t)
  BY <1>6, PutResponseInv, PushResponsesInv, NotifyFrontendInv DEF ResponseStep
<1>7. CASE UNCHANGED vars
  BY <1>7, StutterInv
<1> QED
  BY <1>1, <1>2, <1>3, <1>4, <1>5, <1>6, <1>7 DEF Next

\* In every state of the ring IInv holds: the strengthening that the theorems below need.
THEOREM Invariance == Spec => []IInv
  BY InitInv, NextInv, PTL DEF Spec

\* For any ring size, index width and number of requests, every variable keeps its type:
\* in particular no index leaves 0 .. IndexMod - 1.
THEOREM TypeCorrect == Spec => []TypeOK
<1>1. IInv => TypeOK
  BY DEF IInv
<1> QED
  BY <1>1, Invariance, PTL

\* RING_REQUEST_PROD_OVERFLOW() and RING_REQUEST_CONS_OVERFLOW() in onReceiveIndication()
\* never throw with a frontend that keeps to RING_FULL(), however the indices wrap and
\* whoever moves rsp_prod_pvt meanwhile.
THEOREM NoOverflow == Spec => []NoFalseOverflow
<1>1. IInv => NoFalseOverflow
  BY DEF IInv, ControlInv, NoFalseOverflow
<1> QED
  BY <1>1, Invariance, PTL

\* Neither end sleeps over a request or a response without a notification that is pending
\* or about to be sent, for any interleaving of the check-arm-recheck sequence of one end
\* with the push and the notification test of the other.
THEOREM NoneStranded == Spec => []NothingStranded
<1>1. IInv => NothingStranded
  BY DEF IInv, ControlInv, RequestNotice, ResponseNotice, NothingStranded
<1> QED
  BY <1>1, Invariance, PTL
-----------------------------------------------------------------------------
(***************************************************************************)
(* The ring implements RequestChannel, for all constants: each step of the *)
(* ring is the step of the channel it should be, or shows nothing there.   *)
(*                                                                         *)
(* The channel's queues are the windows of the slots between two indices   *)
(* (RingBufferIn's Channel), so the proof is about windows: one loses its  *)
(* head when the first index moves on (WindowTail), grows at the end when  *)
(* the last does (WindowConcat), and stays the same when a slot outside it *)
(* is written (WindowSame), which is where the sizes matter.  The facts    *)
(* about the state come from IInv.                                         *)
(***************************************************************************)
USE DEF Behind, Before, Busy, Answerer, HasAnswer

(* Windows of the ring *)

\* The slots between two indices, of an array given
WindowOf(s, i, j) == [k \in 1..Dist(i, j) |-> s[Add(i, k - 1) % Size]]

\* Numbers with one slot share it after the same number of steps.
LEMMA ModShift ==
  ASSUME NEW a \in Int, NEW b \in Int, a % Size = b % Size, NEW m \in Int
  PROVE  (a + m) % Size = (b + m) % Size
<1> DEFINE q == a \div Size
           r == a % Size
           s == b \div Size
           u == (r + m) \div Size
           v == (r + m) % Size
<1>1. /\ q \in Int /\ s \in Int /\ r \in Int
      /\ a = (Size * q) + r /\ b = (Size * s) + r
  BY DivMod, Bounds
<1>2. u \in Int /\ v \in 0..Size - 1 /\ r + m = (Size * u) + v
  BY <1>1, DivMod, Bounds
<1> HIDE DEF q, r, s, u, v
<1>3. /\ Size * (q + u) = Size * q + Size * u
      /\ Size * (s + u) = Size * s + Size * u
  BY <1>1, <1>2, Bounds
<1>4. /\ a + m = (Size * (q + u)) + v
      /\ b + m = (Size * (s + u)) + v
  BY <1>1, <1>2, <1>3, Bounds
<1>5. q + u \in Int /\ s + u \in Int
  BY <1>1, <1>2
<1>6. ((Size * (q + u)) + v) % Size = v /\ ((Size * (s + u)) + v) % Size = v
  BY <1>2, <1>5, ModUnique, Bounds
<1> QED
  BY <1>4, <1>6

\* Indices n apart, n less than IndexMod: how Add is counted out.
LEMMA AddCases ==
  ASSUME NEW i \in Index, NEW m \in Int, 0 <= m, m < IndexMod
  PROVE  /\ Add(i, m) = IF i + m < IndexMod THEN i + m ELSE i + m - IndexMod
         /\ Add(i, m) \in Index
<1>1. i + m \in 0..2 * IndexMod - 1
  BY Bounds DEF Index
<1> QED
  BY <1>1, Bounds DEF Add, Index

\* From i it is Dist(i, j) steps to j.
LEMMA AddDist ==
  ASSUME NEW i \in Index, NEW j \in Index
  PROVE  Add(i, Dist(i, j)) = j
<1>1. /\ Dist(i, j) = IF i <= j THEN j - i ELSE j - i + IndexMod
      /\ Dist(i, j) \in Index
  BY DistCases
<1>2. Add(i, Dist(i, j)) = IF i + Dist(i, j) < IndexMod THEN i + Dist(i, j)
                           ELSE i + Dist(i, j) - IndexMod
  BY <1>1, AddCases, IndexInt
<1> QED
  BY <1>1, <1>2, IndexInt

\* The slot is that of the sum, wrapped or not.
LEMMA AddSlot ==
  ASSUME NEW i \in Int, NEW m \in Int
  PROVE  Add(i, m) % Size = (i + m) % Size
  BY SlotOfMod DEF Add

\* A slot as far after i as m is after j
LEMMA JumpSlot ==
  ASSUME NEW i \in Index, NEW j \in Index, NEW m \in Int
  PROVE  Add(j, m) % Size = (i + (Dist(i, j) + m)) % Size
<1>1. i \in Int /\ j \in Int /\ Dist(i, j) \in Int /\ i + Dist(i, j) \in Int
  BY DistCases, IndexInt
<1>2. j % Size = (i + Dist(i, j)) % Size
  BY <1>1, AddDist, AddSlot
<1>3. (j + m) % Size = ((i + Dist(i, j)) + m) % Size
  BY <1>1, <1>2, ModShift
<1>4. (i + Dist(i, j)) + m = i + (Dist(i, j) + m)
  BY <1>1
<1> QED
  BY <1>1, <1>3, <1>4, AddSlot

\* Slots of different places within Size of each other
LEMMA PlacesDiffer ==
  ASSUME NEW i \in Index, NEW a \in Int, NEW b \in Int, a < b, b - a < Size
  PROVE  (i + a) % Size # (i + b) % Size
<1>1. i + a \in Int /\ i + b \in Int /\ i + a < i + b /\ (i + b) - (i + a) < Size
  BY Bounds DEF Index
<1> QED
  BY <1>1, SlotsDiffer

\* It is one of the ring.
LEMMA SlotIn ==
  ASSUME NEW i \in Index, NEW m \in Int
  PROVE  Add(i, m) % Size \in 0..Size - 1
<1>1. Add(i, m) \in Int
  BY DivMod, Bounds DEF Add, Index
<1> QED
  BY <1>1, SlotRange

Message == [kind : {"req", "rsp"}, id : 0..MaxRequests]

\* A window is a sequence of messages, as long as its indices are apart.
LEMMA WindowSeq ==
  ASSUME NEW s \in [0..Size - 1 -> Message], NEW i \in Index, NEW j \in Index
  PROVE  /\ WindowOf(s, i, j) \in Seq(Message)
         /\ Len(WindowOf(s, i, j)) = Dist(i, j)
         /\ Dist(i, j) \in Nat
         /\ \A k \in 1..Dist(i, j) : WindowOf(s, i, j)[k] = s[Add(i, k - 1) % Size]
<1>1. Dist(i, j) \in Nat
  BY DistCases, IndexInt
<1>2. \A k \in 1..Dist(i, j) : Add(i, k - 1) % Size \in 0..Size - 1
  <2> TAKE k \in 1..Dist(i, j)
  <2>1. k - 1 \in Int
    BY <1>1
  <2> QED
    BY <2>1, SlotIn
<1>3. WindowOf(s, i, j) \in [1..Dist(i, j) -> Message]
  BY <1>1, <1>2 DEF WindowOf
<1>4. WindowOf(s, i, j) \in Seq(Message)
  BY <1>1, <1>3, SeqDef
<1>5. Len(WindowOf(s, i, j)) = Dist(i, j)
  BY <1>1, <1>3, <1>4, LenProperties DEF WindowOf
<1> QED
  BY <1>1, <1>4, <1>5 DEF WindowOf

\* The first index moves on: the head is gone.
LEMMA WindowTail ==
  ASSUME NEW s \in [0..Size - 1 -> Message], NEW i \in Index, NEW j \in Index, i # j
  PROVE  /\ WindowOf(s, i, j) # << >>
         /\ Head(WindowOf(s, i, j)) = s[i % Size]
         /\ WindowOf(s, Add(i, 1), j) = Tail(WindowOf(s, i, j))
<1> DEFINE w == WindowOf(s, i, j)
           v == WindowOf(s, Add(i, 1), j)
<1>1. Add(i, 1) \in Index /\ Dist(Add(i, 1), j) = Dist(i, j) - 1 /\ Dist(i, j) # 0
  BY AddOne, DistAddFrom, DistZero
<1>2. /\ w \in Seq(Message) /\ Len(w) = Dist(i, j) /\ Dist(i, j) \in Nat
      /\ \A k \in 1..Dist(i, j) : w[k] = s[Add(i, k - 1) % Size]
  BY WindowSeq
<1>3. /\ v \in Seq(Message) /\ Len(v) = Dist(i, j) - 1
      /\ \A k \in 1..Dist(i, j) - 1 : v[k] = s[Add(Add(i, 1), k - 1) % Size]
  <2>1. /\ v \in Seq(Message) /\ Len(v) = Dist(Add(i, 1), j)
        /\ \A k \in 1..Dist(Add(i, 1), j) : v[k] = s[Add(Add(i, 1), k - 1) % Size]
    BY <1>1, WindowSeq
  <2> HIDE DEF v
  <2> QED
    BY <1>1, <2>1
<1> HIDE DEF w, v
<1>4. w # << >>
  BY <1>1, <1>2, EmptySeq
<1>5. /\ Tail(w) \in Seq(Message) /\ Len(Tail(w)) = Dist(i, j) - 1
      /\ \A k \in 1..Dist(i, j) - 1 : Tail(w)[k] = w[k + 1]
  BY <1>2, <1>4, HeadTailProperties
<1>6. Head(w) = s[i % Size]
  <2>1. Head(w) = w[1]
    BY <1>2, <1>4
  <2>2. w[1] = s[Add(i, 1 - 1) % Size]
    BY <1>1, <1>2
  <2>3. Add(i, 1 - 1) = i
    BY AddCases, Bounds, IndexInt
  <2> QED
    BY <2>1, <2>2, <2>3
<1>7. ASSUME NEW k \in 1..Dist(i, j) - 1
      PROVE  v[k] = Tail(w)[k]
  <2>1. k \in Int /\ k + 1 \in 1..Dist(i, j) /\ (k + 1) - 1 = k /\ i \in Int
    BY <1>2, IndexInt
  <2>2. Add(Add(i, 1), k - 1) % Size = Add(i, k) % Size
    <3>1. i % Size = i % Size /\ Add(i, 1) % Size = (i + 1) % Size
      BY <2>1, AddSlot
    <3>2. Add(i, 1) \in Int /\ i + 1 \in Int /\ k - 1 \in Int
      <4>1. Add(i, 1) \in Int
        BY <1>1, IndexInt
      <4> QED
        BY <2>1, <4>1
    <3>3. (Add(i, 1) + (k - 1)) % Size = ((i + 1) + (k - 1)) % Size
      BY <3>1, <3>2, ModShift
    <3>4. Add(Add(i, 1), k - 1) % Size = (Add(i, 1) + (k - 1)) % Size
      BY <3>2, AddSlot
    <3>5. (i + 1) + (k - 1) = i + k
      BY <2>1
    <3>6. Add(i, k) % Size = (i + k) % Size
      BY <2>1, AddSlot
    <3> QED
      BY <3>3, <3>4, <3>5, <3>6
  <2>3. v[k] = s[Add(i, k) % Size]
    BY <1>3, <2>2
  <2>4. w[k + 1] = s[Add(i, k) % Size]
    BY <1>2, <2>1
  <2>5. Tail(w)[k] = w[k + 1]
    BY <1>5
  <2> QED
    BY <2>3, <2>4, <2>5
<1>8. v = Tail(w)
  BY <1>3, <1>5, <1>7, SeqEqual
<1> QED
  BY <1>4, <1>6, <1>8 DEF w, v

\* The last index moves from j to p: what lies between them is appended.
LEMMA WindowConcat ==
  ASSUME NEW s \in [0..Size - 1 -> Message],
         NEW i \in Index, NEW j \in Index, NEW p \in Index, Dist(i, p) = Dist(i, j) + Dist(j, p)
  PROVE  WindowOf(s, i, p) = WindowOf(s, i, j) \o WindowOf(s, j, p)
<1> DEFINE w == WindowOf(s, i, p)
           u == WindowOf(s, i, j)
           v == WindowOf(s, j, p)
<1>1. /\ u \in Seq(Message) /\ Len(u) = Dist(i, j) /\ Dist(i, j) \in Nat
      /\ \A k \in 1..Dist(i, j) : u[k] = s[Add(i, k - 1) % Size]
  BY WindowSeq
<1>2. /\ v \in Seq(Message) /\ Len(v) = Dist(j, p) /\ Dist(j, p) \in Nat
      /\ \A k \in 1..Dist(j, p) : v[k] = s[Add(j, k - 1) % Size]
  BY WindowSeq
<1>3. /\ w \in Seq(Message) /\ Len(w) = Dist(i, j) + Dist(j, p)
      /\ \A k \in 1..Dist(i, j) + Dist(j, p) : w[k] = s[Add(i, k - 1) % Size]
  <2>1. /\ w \in Seq(Message) /\ Len(w) = Dist(i, p)
        /\ \A k \in 1..Dist(i, p) : w[k] = s[Add(i, k - 1) % Size]
    BY WindowSeq
  <2> HIDE DEF w
  <2> QED
    BY <2>1
<1> HIDE DEF w, u, v
<1>4. /\ u \o v \in Seq(Message) /\ Len(u \o v) = Len(u) + Len(v)
      /\ \A k \in 1..Len(u) + Len(v) :
           (u \o v)[k] = IF k <= Len(u) THEN u[k] ELSE v[k - Len(u)]
  BY <1>1, <1>2, ConcatProperties
<1>5. /\ u \o v \in Seq(Message) /\ Len(u \o v) = Dist(i, j) + Dist(j, p)
      /\ \A k \in 1..Dist(i, j) + Dist(j, p) :
           (u \o v)[k] = IF k <= Dist(i, j) THEN u[k] ELSE v[k - Dist(i, j)]
  BY <1>1, <1>2, <1>4
<1>6. ASSUME NEW k \in 1..Dist(i, j) + Dist(j, p)
      PROVE  w[k] = (u \o v)[k]
  <2>1. CASE k <= Dist(i, j)
    <3>1. k \in 1..Dist(i, j)
      BY <1>1, <1>2, <2>1
    <3> QED
      BY <1>1, <1>3, <1>5, <2>1, <3>1
  <2>2. CASE k > Dist(i, j)
    <3> DEFINE m == k - Dist(i, j)
    <3>1. m \in 1..Dist(j, p) /\ m - 1 \in Int /\ Dist(i, j) + (m - 1) = k - 1 /\ k - 1 \in Int
      BY <1>1, <1>2, <2>2
    <3>2. Add(j, m - 1) % Size = (i + (k - 1)) % Size
      BY <3>1, JumpSlot
    <3>3. Add(i, k - 1) % Size = (i + (k - 1)) % Size
      BY <3>1, AddSlot, IndexInt
    <3>4. (u \o v)[k] = v[m]
      BY <1>1, <1>2, <1>5, <2>2
    <3> HIDE DEF m
    <3> QED
      BY <1>2, <1>3, <3>1, <3>2, <3>3, <3>4
  <2> QED
    BY <1>1, <1>2, <2>1, <2>2
<1>7. w = u \o v
  BY <1>3, <1>5, <1>6, SeqEqual
<1> QED
  BY <1>7 DEF w, u, v

\* A window is what its slots hold.
LEMMA WindowSame ==
  ASSUME NEW s, NEW t, NEW i \in Index, NEW j \in Index,
         \A k \in 1..Dist(i, j) : t[Add(i, k - 1) % Size] = s[Add(i, k - 1) % Size]
  PROVE  WindowOf(t, i, j) = WindowOf(s, i, j)
  BY DEF WindowOf

-----------------------------------------------------------------------------
(* The refinement mapping *)

RspFrom == IF pc["receiver"] = "take" THEN ri ELSE rspCons
Posted  == Before(reqProd)
Reqs    == WindowOf(slot, reqCons, reqProd)
Rsps    == WindowOf(slot, RspFrom, rspProd)

\* The variables of the channel under the mapping of RingBufferIn
LEMMA Mapped ==
  /\ Channel!vars = <<Posted, Reqs, InHand, Rsps>>
  /\ Channel!vars' = <<Posted', Reqs', InHand', Rsps'>>
  BY DEF Channel!vars, Posted, Reqs, Rsps, RspFrom, Window, WindowOf

\* The responses the frontend has not received are behind rsp_cons and no more than Size.
LEMMA RspOrder ==
  ASSUME IInv
  PROVE  /\ RspFrom \in Index /\ Behind(rspProd) <= Behind(RspFrom)
         /\ Behind(RspFrom) <= Behind(rspCons) /\ Behind(rspCons) <= Size
  BY Typed DEF IInv, OrderInv, RspFrom

\* The hands stay as they are if the threads are in the same part of the code.
LEMMA HandSame ==
  ASSUME UNCHANGED <<owed, req, ans>>,
         pc["event"] = "process" <=> pc'["event"] = "process",
         HasAnswer("event") <=> HasAnswer("event")',
         HasAnswer("worker") <=> HasAnswer("worker")'
  PROVE  InHand' = InHand
  BY InHandIs

\* What the channel does not show
LEMMA SameChannel ==
  ASSUME UNCHANGED <<slot, reqCons, reqProd, rspProd, sent, reqProdPvt>>,
         RspFrom' = RspFrom, InHand' = InHand
  PROVE  UNCHANGED Channel!vars
  BY Mapped DEF Posted, Reqs, Rsps

\* The fresh ring is the empty channel.
LEMMA InitMapped ==
  ASSUME Init
  PROVE  Channel!Init
<1>1. 0 \in Index /\ Dist(0, 0) = 0
  BY DistZero, Bounds DEF Index
<1>2. RspFrom = 0 /\ InHand = {}
  BY DEF Init, RspFrom, InHand, Thread
<1>3. \A f : [k \in 1..0 |-> f] = << >>
  OBVIOUS
<1>4. Posted = 0 /\ Reqs = << >> /\ Rsps = << >>
  BY <1>1, <1>2 DEF Init, Posted, Reqs, Rsps, WindowOf
<1> QED
  BY <1>2, <1>4 DEF Channel!Init, Posted, Reqs, Rsps, RspFrom, Window, WindowOf

\* The steps of either end that only look, arm or notify
LEMMA FrontendStutters ==
  ASSUME IInv, NotifyBackend \/ ReceiveEvent \/ ReadRspProd \/ ResponsesTaken
               \/ ArmRspEvent \/ RecheckResponses
  PROVE  UNCHANGED Channel!vars
<1> USE DEF IInv
<1>1. /\ UNCHANGED <<slot, reqCons, reqProd, rspProd, sent, reqProdPvt, owed, req, ans>>
      /\ pc'["event"] = pc["event"] /\ pc'["worker"] = pc["worker"]
  BY DEF ControlInv, NotifyBackend, ReceiveEvent, ReadRspProd, ResponsesTaken, ArmRspEvent,
         RecheckResponses, page, front, back, chan, Goto, Thread
<1>2. InHand' = InHand
  BY <1>1, HandSame
<1>3. RspFrom' = RspFrom
  BY DEF ControlInv, NotifyBackend, ReceiveEvent, ReadRspProd, ResponsesTaken, ArmRspEvent,
         RecheckResponses, page, front, back, chan, Goto, Thread, RspFrom
<1> QED
  BY <1>1, <1>2, <1>3, SameChannel

\* The event thread's looks at the ring show nothing in the channel.
LEMMA EventStutters ==
  ASSUME IInv, PollEvent \/ ReadReqProd \/ FinalCheck \/ ArmReqEvent \/ RecheckRequests
  PROVE  UNCHANGED Channel!vars
<1> USE DEF IInv
<1>1. /\ UNCHANGED <<slot, reqCons, reqProd, rspProd, sent, reqProdPvt, owed, req, ans, ri, rspCons>>
      /\ pc'["receiver"] = pc["receiver"] /\ pc'["worker"] = pc["worker"]
      /\ pc["event"] \notin Busy /\ pc'["event"] \notin Busy
  BY DEF ControlInv, PollEvent, ReadReqProd, ReadProd, FinalCheck, Consumed, ArmReqEvent,
         RecheckRequests, page, front, back, chan, Goto, Thread
<1>2. InHand' = InHand
  BY <1>1, HandSame
<1>3. RspFrom' = RspFrom
  BY <1>1 DEF RspFrom
<1> QED
  BY <1>1, <1>2, <1>3, SameChannel

\* A request that goes from the event thread to the worker stays in hand.
LEMMA HandsStutter ==
  ASSUME IInv, ProcessRequest \/ PickResponse
  PROVE  UNCHANGED Channel!vars
<1> USE DEF IInv
<1>1. /\ UNCHANGED <<slot, reqCons, reqProd, rspProd, sent, reqProdPvt, req, ri, rspCons>>
      /\ pc'["receiver"] = pc["receiver"]
  BY DEF ControlInv, ProcessRequest, PickResponse, page, front, chan, Goto, Thread
<1>2. RspFrom' = RspFrom
  BY <1>1 DEF RspFrom
<1>3. CASE ProcessRequest
  <2>1. CASE /\ answerer = "event" /\ ans' = [ans EXCEPT !["event"] = req] /\ UNCHANGED owed
             /\ pc["event"] = "process" /\ pc' = [pc EXCEPT !["event"] = "response"]
    <3>1. /\ pc'["event"] = "response" /\ pc'["worker"] = pc["worker"]
          /\ ans'["event"] = req /\ ans'["worker"] = ans["worker"]
      BY <2>1 DEF ControlInv, TypeOK, Thread
    <3>2. InHand' = InHand
      BY <1>1, <2>1, <3>1, InHandIs
    <3> QED
      BY <1>1, <1>2, <3>2, SameChannel
  <2>2. CASE /\ answerer = "worker" /\ owed' = owed \union {req} /\ UNCHANGED ans
             /\ pc["event"] = "process" /\ pc' = [pc EXCEPT !["event"] = "take"]
    <3>1. pc'["event"] = "take" /\ pc'["worker"] = pc["worker"]
      BY <2>2 DEF ControlInv, TypeOK, Thread
    <3>2. InHand' = InHand
      BY <1>1, <2>2, <3>1, InHandIs
    <3> QED
      BY <1>1, <1>2, <3>2, SameChannel
  <2> QED
    BY <1>3, <2>1, <2>2 DEF ProcessRequest, Goto
<1>4. CASE PickResponse
  <2> PICK n \in owed : ans' = [ans EXCEPT !["worker"] = n] /\ owed' = owed \ {n}
    BY <1>4 DEF PickResponse
  <2>1. /\ pc["worker"] = "idle" /\ pc'["worker"] = "response" /\ pc'["event"] = pc["event"]
        /\ ans'["worker"] = n /\ ans'["event"] = ans["event"]
    BY <1>4 DEF PickResponse, ControlInv, TypeOK, Thread, Goto
  <2>2. InHand' = InHand
    BY <1>1, <2>1, InHandIs
  <2> QED
    BY <1>1, <1>2, <2>2, SameChannel
<1> QED
  BY <1>3, <1>4

\* The notification test changes nothing that the channel shows.
LEMMA NotifyStutters ==
  ASSUME IInv, NEW t \in Answerer, NotifyFrontend(t)
  PROVE  UNCHANGED Channel!vars
<1> USE DEF IInv
<1>1. /\ UNCHANGED <<slot, reqCons, reqProd, rspProd, sent, reqProdPvt, req, ri, rspCons, owed, ans>>
      /\ pc'["receiver"] = pc["receiver"]
  BY DEF ControlInv, NotifyFrontend, page, front, back, Goto, Thread
<1>2. /\ pc["event"] = "process" <=> pc'["event"] = "process"
      /\ HasAnswer("event") <=> HasAnswer("event")'
      /\ HasAnswer("worker") <=> HasAnswer("worker")'
  BY DEF ControlInv, NotifyFrontend, Goto, Thread
<1>3. InHand' = InHand
  BY <1>1, <1>2, HandSame
<1>4. RspFrom' = RspFrom
  BY <1>1 DEF RspFrom
<1> QED
  BY <1>1, <1>3, <1>4, SameChannel

\* Slot i + m, with i no further than Size behind and m short of what is filled,
\* is not the one that FillRequest fills.
LEMMA FillOutside ==
  ASSUME IInv, Behind(rspCons) < Size, NEW i \in Index, NEW j \in Index,
         Behind(j) <= Behind(i), Behind(i) <= Behind(rspCons)
  PROVE  WindowOf([slot EXCEPT ![reqProdPvt % Size] = Request(sent + 1)], i, j) = WindowOf(slot, i, j)
<1> USE DEF IInv
<1>1. /\ reqProdPvt \in Index /\ Behind(i) \in Int /\ Behind(j) \in Int /\ Behind(j) >= 0
      /\ Behind(i) < Size /\ Dist(i, j) = Behind(i) - Behind(j)
  BY Typed, DistBetween, Bounds
<1>2. slot \in [0..Size - 1 -> Message]
  BY DEF TypeOK, Message
<1>3. ASSUME NEW k \in 1..Dist(i, j)
      PROVE  Add(i, k - 1) % Size # reqProdPvt % Size
  <2>1. reqProdPvt \in Int /\ i \in Int /\ Size \in Int
    BY <1>1, IndexInt, Bounds
  <2>2. k - 1 \in Int /\ k - 1 < Behind(i) /\ Behind(i) - (k - 1) < Size
    BY <1>1, <2>1
  <2>3. Add(i, k - 1) % Size = (i + (k - 1)) % Size
    BY <2>1, <2>2, AddSlot
  <2>4. reqProdPvt % Size = (i + Behind(i)) % Size
    BY <1>1, <2>1, AddDist, AddSlot
  <2>5. (i + (k - 1)) % Size # (i + Behind(i)) % Size
    BY <1>1, <2>2, PlacesDiffer
  <2> QED
    BY <2>3, <2>4, <2>5
<1> QED
  <2> DEFINE t == [slot EXCEPT ![reqProdPvt % Size] = Request(sent + 1)]
  <2>1. ASSUME NEW k \in 1..Dist(i, j)
        PROVE  t[Add(i, k - 1) % Size] = slot[Add(i, k - 1) % Size]
    <3>1. k - 1 \in Int
      BY <1>1
    <3>2. Add(i, k - 1) % Size \in 0..Size - 1
      BY <3>1, SlotIn
    <3> QED
      BY <1>3, <1>2, <3>2
  <2> HIDE DEF t
  <2>2. WindowOf(t, i, j) = WindowOf(slot, i, j)
    BY <2>1, WindowSame
  <2> QED
    BY <2>2 DEF t

\* A slot is filled outside of what is posted or answered: nothing is posted yet.
LEMMA FillStutters ==
  ASSUME IInv, FillRequest
  PROVE  UNCHANGED Channel!vars
<1> USE DEF IInv
<1>1. /\ sent' = sent + 1 /\ reqProdPvt' = Add(reqProdPvt, 1)
      /\ slot' = [slot EXCEPT ![reqProdPvt % Size] = Request(sent + 1)]
      /\ Behind(rspCons) < Size
      /\ UNCHANGED <<reqProd, rspProd, rspCons, ri, reqCons, req, owed, ans, pc>>
  BY DEF FillRequest, back, chan
<1>2. InHand' = InHand
  BY <1>1, HandSame
<1>3. RspFrom' = RspFrom /\ RspFrom \in Index
  BY <1>1, RspOrder DEF RspFrom
<1>4. Posted' = Posted
  <2>1. Behind(reqProd) < IndexMod - 1 /\ sent \in Int /\ Behind(reqProd) \in Int
    BY <1>1, Typed, Bounds DEF OrderInv
  <2>2. Dist(reqProd, Add(reqProdPvt, 1)) = Behind(reqProd) + 1
    BY <2>1, Typed, DistAddTo
  <2> QED
    BY <1>1, <2>1, <2>2 DEF Posted
<1>5. Reqs' = Reqs
  <2>1. Behind(reqProd) <= Behind(reqCons) /\ Behind(reqCons) <= Behind(rspCons)
    BY Typed DEF OrderInv
  <2> QED
    BY <1>1, <2>1, Typed, FillOutside DEF Reqs
<1>6. Rsps' = Rsps
  BY <1>1, <1>3, RspOrder, Typed, FillOutside DEF Rsps
<1> QED
  BY <1>2, <1>4, <1>5, <1>6, Mapped

\* The batch is what the slots hold from the producer that was pushed before.
LEMMA PushIsPost ==
  ASSUME IInv, PushRequests
  PROVE  Channel!Post
<1> USE DEF IInv
<1> DEFINE n == Behind(reqProd)
<1>1. /\ reqProdPvt # reqProd /\ reqProd' = reqProdPvt
      /\ UNCHANGED <<slot, rspProd, reqProdPvt, rspCons, sent, ri, reqCons, req, owed, ans>>
      /\ pc'["event"] = pc["event"] /\ pc'["worker"] = pc["worker"]
      /\ pc'["receiver"] = pc["receiver"]
  BY DEF PushRequests, front, chan, Goto, ControlInv, Thread
<1>2. InHand' = InHand /\ RspFrom' = RspFrom /\ Rsps' = Rsps
  <2>1. InHand' = InHand /\ RspFrom' = RspFrom
    BY <1>1, HandSame DEF RspFrom
  <2> QED
    BY <1>1, <2>1 DEF Rsps
<1>3. /\ n \in 1..Size /\ Dist(reqProd, reqProdPvt) = n
      /\ Dist(reqCons, reqProd) = Behind(reqCons) - n
      /\ Dist(reqCons, reqProdPvt) = Dist(reqCons, reqProd) + n
      /\ Dist(RspFrom, rspProd) = Behind(RspFrom) - Behind(rspProd)
  BY <1>1, Typed, DistBetween, RspOrder, Bounds DEF OrderInv
<1>4. slot \in [0..Size - 1 -> Message]
  BY DEF TypeOK, Message
<1>5. Posted' = Posted + n
  <2>1. Dist(reqProdPvt, reqProdPvt) = 0
    BY Typed, DistZero
  <2> QED
    BY <1>1, <1>3, <2>1, Typed DEF Posted
<1>6. Len(Reqs) + n + Cardinality(InHand) + Len(Rsps) <= Size
  <2>1. Len(Reqs) = Dist(reqCons, reqProd) /\ Len(Rsps) = Dist(RspFrom, rspProd)
    BY <1>4, Typed, RspOrder, WindowSeq DEF Reqs, Rsps
  <2>2. Cardinality(InHand) = Behind(rspProd) - Behind(reqCons)
    BY DEF HandInv
  <2>3. /\ Behind(reqCons) \in Int /\ Behind(rspProd) \in Int /\ Behind(RspFrom) \in Int
        /\ n \in Int /\ Size \in Int /\ Behind(RspFrom) <= Size
    BY Typed, RspOrder, Bounds
  <2> QED
    BY <1>3, <2>1, <2>2, <2>3
<1>7. WindowOf(slot, reqProd, reqProdPvt) = [i \in 1..n |-> Request(Posted + i)]
  <2>1. ASSUME NEW k \in 1..n
        PROVE  slot[Add(reqProd, k - 1) % Size] = Request(Posted + k)
    <3>1. /\ k - 1 \in Int /\ reqProd \in Int /\ Before(reqProd) \in Int
          /\ Behind(reqProd) <= Behind(reqCons) /\ Behind(reqCons) \in Int /\ sent \in Int
      BY <1>3, Typed, IndexInt DEF OrderInv
    <3>2. Add(reqProd, k - 1) % Size = (reqProd + (k - 1)) % Size
      BY <3>1, AddSlot
    <3>3. (reqProd + (k - 1)) % Size = (Before(reqProd) + (k - 1)) % Size
      <4>1. reqProd \in Index
        BY Typed
      <4>2. reqProd % Size = Before(reqProd) % Size
        BY <4>1, SlotOf
      <4> QED
        BY <3>1, <4>2, ModShift
    <3>4. Posted + k \in Before(reqCons) + 1..sent
      BY <1>3, <3>1 DEF Posted
    <3>5. (Posted + k) - 1 = Before(reqProd) + (k - 1)
      BY <3>1 DEF Posted
    <3>6. slot[((Posted + k) - 1) % Size] = Request(Posted + k)
      BY <3>4 DEF SlotInv
    <3> QED
      BY <3>2, <3>3, <3>5, <3>6
  <2> QED
    BY <1>3, <2>1 DEF WindowOf
<1>8. Reqs' = Reqs \o [i \in 1..n |-> Channel!Request(Posted + i)]
  <2>1. WindowOf(slot, reqCons, reqProdPvt) = Reqs \o WindowOf(slot, reqProd, reqProdPvt)
    <3>1. reqCons \in Index /\ reqProd \in Index /\ reqProdPvt \in Index
      BY Typed
    <3>2. Dist(reqCons, reqProdPvt) = Dist(reqCons, reqProd) + Dist(reqProd, reqProdPvt)
      BY <1>3
    <3> QED
      BY <1>4, <3>1, <3>2, WindowConcat DEF Reqs
  <2> QED
    BY <1>1, <1>7, <2>1 DEF Reqs, Request, Channel!Request
<1>9. Channel!Cardinality(InHand) = Cardinality(InHand)
  BY DEF Channel!Cardinality, Cardinality
<1> HIDE DEF n
<1> QED
  BY <1>2, <1>3, <1>5, <1>6, <1>8, <1>9 DEF Channel!Post, Posted, Reqs, Rsps, RspFrom, Window, WindowOf

\* The request copied out of its slot is the head of what is posted.
LEMMA TakeIsTake ==
  ASSUME IInv, TakeRequest
  PROVE  Channel!Take
<1> USE DEF IInv
<1>1. reqCons # reqProdPvt /\ reqCons # reqProd
  <2>1. reqCons # rp /\ pc["event"] = "take"
    BY DEF TakeRequest
  <2>2. Behind(rp) < Behind(reqCons) /\ Behind(reqProd) <= Behind(rp)
    BY <2>1, Typed, DistEqual DEF OrderInv
  <2> QED
    BY <2>2, Typed
<1>2. /\ slot[reqCons % Size] = Request(Before(reqCons) + 1)
      /\ ~(Dist(rspProdPvt, reqCons) >= Size)
  <2>1. Dist(rspProdPvt, reqCons) \in Int
    BY Typed, DistCases, IndexInt
  <2> QED
    BY <1>1, <2>1, NextRequest, Bounds
<1>3. /\ pc["event"] = "take" /\ pc'["event"] = "process" /\ pc'["worker"] = pc["worker"]
      /\ pc'["receiver"] = pc["receiver"]
      /\ req' = slot[reqCons % Size].id /\ reqCons' = Add(reqCons, 1)
      /\ UNCHANGED <<slot, reqProd, rspProd, reqProdPvt, rspCons, sent, ri, owed, ans>>
  BY <1>2 DEF TakeRequest, page, front, chan, Goto, ControlInv, Thread
<1>4. InHand' = InHand \union {slot[reqCons % Size].id}
  BY <1>3, InHandIs
<1>5. RspFrom' = RspFrom /\ Rsps' = Rsps /\ Posted' = Posted
  BY <1>3 DEF RspFrom, Rsps, Posted
<1>6. slot \in [0..Size - 1 -> Message]
  BY DEF TypeOK, Message
<1>7. Reqs # << >> /\ Head(Reqs) = slot[reqCons % Size] /\ Reqs' = Tail(Reqs)
  <2>1. reqCons \in Index /\ reqProd \in Index
    BY Typed
  <2>2. /\ WindowOf(slot, reqCons, reqProd) # << >>
        /\ Head(WindowOf(slot, reqCons, reqProd)) = slot[reqCons % Size]
        /\ WindowOf(slot, Add(reqCons, 1), reqProd) = Tail(WindowOf(slot, reqCons, reqProd))
    BY <1>1, <1>6, <2>1, WindowTail
  <2> QED
    BY <1>3, <2>2 DEF Reqs
<1>8. Head(Reqs).kind = "req"
  BY <1>2, <1>7 DEF Request
<1> QED
  BY <1>4, <1>5, <1>7, <1>8, Mapped DEF Channel!Take, Channel!vars, Posted, Reqs, Rsps, RspFrom, Window, WindowOf

\* The receiver takes the head of the responses.
LEMMA TakeIsReceive ==
  ASSUME IInv, TakeResponse
  PROVE  Channel!Receive
<1> USE DEF IInv
<1>1. /\ pc["receiver"] = "take" /\ ri # rrp /\ ri' = Add(ri, 1)
      /\ UNCHANGED <<slot, reqProd, rspProd, reqProdPvt, reqCons, sent, owed, ans, req, pc>>
  BY DEF TakeResponse, page, back, chan
<1>2. InHand' = InHand /\ Reqs' = Reqs /\ Posted' = Posted
  <2>1. InHand' = InHand
    BY <1>1, HandSame
  <2> QED
    BY <1>1, <2>1 DEF Reqs, Posted
<1>3. ri # rspProd
  BY <1>1, Typed, DistEqual DEF OrderInv
<1>4. slot \in [0..Size - 1 -> Message]
  BY DEF TypeOK, Message
<1>5. RspFrom = ri /\ RspFrom' = Add(ri, 1)
  BY <1>1 DEF RspFrom
<1>6. Rsps # << >> /\ Rsps' = Tail(Rsps)
  <2>1. ri \in Index /\ rspProd \in Index
    BY Typed
  <2>2. /\ WindowOf(slot, ri, rspProd) # << >>
        /\ WindowOf(slot, Add(ri, 1), rspProd) = Tail(WindowOf(slot, ri, rspProd))
    BY <1>3, <1>4, <2>1, WindowTail
  <2> QED
    BY <1>1, <1>5, <2>2 DEF Rsps
<1> QED
  BY <1>2, <1>6, Mapped DEF Channel!Receive, Channel!vars, Posted, Reqs, Rsps, RspFrom, Window, WindowOf

\* The response goes into a slot that is neither a request's nor a response's.
LEMMA PutStutters ==
  ASSUME IInv, NEW t \in Answerer, PutResponse(t)
  PROVE  UNCHANGED Channel!vars
<1> USE DEF IInv
<1>1. /\ pc[t] = "response" /\ pc' = [pc EXCEPT ![t] = "push"]
      /\ slot' = [slot EXCEPT ![rspProdPvt % Size] = Response(ans[t])]
      /\ UNCHANGED <<reqProd, rspProd, reqProdPvt, rspCons, sent, ri, reqCons, req, owed, ans>>
  BY DEF PutResponse, PutAt, front, chan, Goto
<1>2. /\ pc'["receiver"] = pc["receiver"]
      /\ HasAnswer("event") <=> HasAnswer("event")'
      /\ HasAnswer("worker") <=> HasAnswer("worker")'
      /\ pc["event"] = "process" <=> pc'["event"] = "process"
  BY <1>1 DEF Thread, ControlInv
<1>3. InHand' = InHand /\ RspFrom' = RspFrom /\ Posted' = Posted
  <2>1. InHand' = InHand
    BY <1>1, <1>2, HandSame
  <2> QED
    BY <1>1, <1>2, <2>1 DEF RspFrom, Posted
<1>4. rspProdPvt = rspProd /\ Behind(rspProd) > Behind(reqCons)
  <2>1. \A u \in Answerer : pc[u] # "push"
    BY <1>1, OneAnswers
  <2> QED
    BY <1>1, <2>1, AnswersWhatItHolds DEF HandInv
<1>5. /\ Behind(rspProd) \in Int /\ Behind(reqCons) \in Int /\ Behind(reqProd) \in Int
      /\ Behind(RspFrom) \in Int /\ Size \in Int /\ Behind(reqCons) >= 0 /\ Behind(reqProd) >= 0
      /\ Behind(RspFrom) <= Size /\ Behind(rspProd) <= Behind(RspFrom)
      /\ Behind(reqProd) <= Behind(reqCons) /\ RspFrom \in Index
  BY Typed, RspOrder, Bounds DEF OrderInv
<1>6. slot \in [0..Size - 1 -> Message]
  BY DEF TypeOK, Message
<1>7. Reqs' = Reqs
  <2>1. /\ Dist(rspProd, reqCons) = Behind(rspProd) - Behind(reqCons)
        /\ Dist(reqCons, reqProd) = Behind(reqCons) - Behind(reqProd)
    BY <1>4, <1>5, Typed, DistBetween
  <2>2. ASSUME NEW k \in 1..Dist(reqCons, reqProd)
        PROVE  Add(reqCons, k - 1) % Size # rspProd % Size
    <3> DEFINE d == Dist(rspProd, reqCons) + (k - 1)
    <3>1. k - 1 \in Int /\ d \in Int /\ 0 < d /\ d - 0 < Size
      BY <1>4, <1>5, <2>1
    <3>2. Add(reqCons, k - 1) % Size = (rspProd + d) % Size
      BY <3>1, Typed, JumpSlot
    <3> HIDE DEF d
    <3>3. (rspProd + 0) % Size # (rspProd + d) % Size
      BY <3>1, Typed, PlacesDiffer
    <3>4. rspProd + 0 = rspProd
      BY Typed, IndexInt
    <3> QED
      BY <3>2, <3>3, <3>4
  <2>3. ASSUME NEW k \in 1..Dist(reqCons, reqProd)
         PROVE  slot'[Add(reqCons, k - 1) % Size] = slot[Add(reqCons, k - 1) % Size]
    <3>1. k - 1 \in Int
      BY <1>5, <2>1
    <3>2. Add(reqCons, k - 1) % Size \in 0..Size - 1
      BY <1>5, <3>1, Typed, SlotIn
    <3> QED
      BY <1>1, <1>4, <1>6, <2>2, <3>2
  <2>4. WindowOf(slot', reqCons, reqProd) = WindowOf(slot, reqCons, reqProd)
    <3>1. reqCons \in Index /\ reqProd \in Index
      BY Typed
    <3> QED
      BY <2>3, <3>1, WindowSame
  <2> QED
    BY <1>1, <2>4 DEF Reqs
<1>8. Rsps' = Rsps
  <2>1. Dist(RspFrom, rspProd) = Behind(RspFrom) - Behind(rspProd)
    BY <1>5, Typed, DistBetween
  <2>2. ASSUME NEW k \in 1..Dist(RspFrom, rspProd)
        PROVE  Add(RspFrom, k - 1) % Size # rspProd % Size
    <3> DEFINE d == Dist(RspFrom, rspProd)
    <3>1. k - 1 \in Int /\ d \in Int /\ k - 1 < d /\ d - (k - 1) < Size /\ RspFrom \in Int
      BY <1>4, <1>5, <2>1, IndexInt
    <3>2. Add(RspFrom, k - 1) % Size = (RspFrom + (k - 1)) % Size
      BY <3>1, AddSlot
    <3>3. rspProd % Size = (RspFrom + d) % Size
      BY <1>5, <3>1, Typed, AddDist, AddSlot
    <3> HIDE DEF d
    <3>4. (RspFrom + (k - 1)) % Size # (RspFrom + d) % Size
      BY <1>5, <3>1, PlacesDiffer
    <3> QED
      BY <3>2, <3>3, <3>4
  <2>3. ASSUME NEW k \in 1..Dist(RspFrom, rspProd)
         PROVE  slot'[Add(RspFrom, k - 1) % Size] = slot[Add(RspFrom, k - 1) % Size]
    <3>1. k - 1 \in Int
      BY <1>5, <2>1
    <3>2. Add(RspFrom, k - 1) % Size \in 0..Size - 1
      BY <1>5, <3>1, Typed, SlotIn
    <3> QED
      BY <1>1, <1>4, <1>6, <2>2, <3>2
  <2>4. WindowOf(slot', RspFrom, rspProd) = WindowOf(slot, RspFrom, rspProd)
    <3>1. RspFrom \in Index /\ rspProd \in Index
      BY <1>5, Typed
    <3> QED
      BY <2>3, <3>1, WindowSame
  <2> QED
    BY <1>1, <1>3, <2>4 DEF Rsps
<1> QED
  BY <1>3, <1>7, <1>8, Mapped

\* The push of rsp_prod appends the response to the request that was in this thread's hand.
LEMMA PushIsAnswer ==
  ASSUME IInv, NEW t \in Answerer, PushResponses(t)
  PROVE  Channel!Answer
<1> USE DEF IInv
<1>1. /\ pc[t] = "push" /\ pc' = [pc EXCEPT ![t] = "check"] /\ rspProd' = rspProdPvt
      /\ UNCHANGED <<slot, reqProd, reqProdPvt, rspCons, sent, ri, reqCons, req, owed, ans>>
  BY DEF PushResponses, front, chan, Goto
<1>2. /\ pc'["receiver"] = pc["receiver"] /\ pc'[t] = "check"
      /\ \A u \in Thread \ {t} : pc'[u] = pc[u]
  BY <1>1 DEF Thread, ControlInv
<1>3. /\ rspProdPvt = Add(rspProd, 1) /\ ans[t] \in InHand
      /\ slot[rspProd % Size] = Response(ans[t])
  BY <1>1, AnswersWhatItHolds DEF HandInv, SlotInv
<1>4. InHand' = InHand \ {ans[t]}
  BY <1>1, PushedHand
<1>5. RspFrom' = RspFrom /\ Reqs' = Reqs /\ Posted' = Posted
  BY <1>1, <1>2 DEF RspFrom, Reqs, Posted
<1>6. slot \in [0..Size - 1 -> Message]
  BY DEF TypeOK, Message
<1>7. /\ RspFrom \in Index /\ Dist(RspFrom, Add(rspProd, 1)) = Dist(RspFrom, rspProd) + 1
      /\ Dist(rspProd, Add(rspProd, 1)) = 1
  <2>1. /\ RspFrom \in Index /\ Dist(RspFrom, rspProd) = Behind(RspFrom) - Behind(rspProd)
    BY Typed, RspOrder, DistBetween
  <2>2. Behind(rspProd) > Behind(reqCons)
    BY <1>1, AnswersWhatItHolds
  <2>3. Dist(RspFrom, rspProd) < IndexMod - 1 /\ Dist(rspProd, rspProd) = 0 /\ 0 < IndexMod - 1
    BY <2>1, <2>2, Typed, RspOrder, DistZero, Bounds
  <2> QED
    BY <2>1, <2>3, Typed, DistAddTo
<1>8. Rsps' = Append(Rsps, Channel!Response(ans[t]))
  <2>1. WindowOf(slot, RspFrom, Add(rspProd, 1))
          = WindowOf(slot, RspFrom, rspProd) \o WindowOf(slot, rspProd, Add(rspProd, 1))
    <3>1. rspProd \in Index /\ Add(rspProd, 1) \in Index
      BY Typed, AddOne
    <3> QED
      BY <1>6, <1>7, <3>1, WindowConcat
  <2>2. WindowOf(slot, rspProd, Add(rspProd, 1)) = <<Response(ans[t])>>
    <3>1. \A k \in 1..1 : slot[Add(rspProd, k - 1) % Size] = Response(ans[t])
      <4>1. Add(rspProd, 0) = rspProd
        BY Typed, AddCases, Bounds, IndexInt
      <4> QED
        BY <1>3, <4>1
    <3>2. WindowOf(slot, rspProd, Add(rspProd, 1)) = [k \in 1..1 |-> Response(ans[t])]
      BY <1>7, <3>1 DEF WindowOf
    <3> QED
      BY <3>2
  <2>3. Rsps \in Seq(Message)
    BY <1>6, <1>7, Typed, WindowSeq DEF Rsps
  <2>4. Rsps' = Rsps \o <<Response(ans[t])>>
    BY <1>1, <1>3, <1>5, <2>1, <2>2 DEF Rsps
  <2>5. Response(ans[t]) \in Message
    BY DEF TypeOK, Response, Message, Thread
  <2> QED
    BY <2>3, <2>4, <2>5, AppendIsConcat DEF Response, Channel!Response
<1> QED
  BY <1>3, <1>4, <1>5, <1>8, Mapped DEF Channel!Answer, Channel!vars, Posted, Reqs, Rsps, RspFrom, Window, WindowOf

\* Every step of the ring is a step of the channel, or none.
LEMMA NextMapped ==
  ASSUME IInv, [Next]_vars
  PROVE  [Channel!Next]_Channel!vars
<1>1. CASE FillRequest
  BY <1>1, FillStutters
<1>2. CASE SenderStep
  BY <1>2, PushIsPost, FrontendStutters DEF SenderStep, Channel!Next
<1>3. CASE ReceiverStep
  BY <1>3, TakeIsReceive, FrontendStutters DEF ReceiverStep, Channel!Next
<1>4. CASE EventStep
  BY <1>4, TakeIsTake, EventStutters, HandsStutter DEF EventStep, Channel!Next
<1>5. CASE PickResponse
  BY <1>5, HandsStutter
<1>6. CASE \E t \in {"event", "worker"} : ResponseStep(t)
  BY <1>6, PutStutters, PushIsAnswer, NotifyStutters DEF ResponseStep, Channel!Next
<1>7. CASE UNCHANGED vars
  <2>1. UNCHANGED <<slot, reqCons, reqProd, rspProd, sent, reqProdPvt, owed, req, ans, pc, ri, rspCons>>
    BY <1>7 DEF vars, page, front, back
  <2>2. InHand' = InHand /\ RspFrom' = RspFrom
    BY <2>1, HandSame DEF RspFrom
  <2> QED
    BY <2>1, <2>2, SameChannel
<1> QED
  BY <1>1, <1>2, <1>3, <1>4, <1>5, <1>6, <1>7 DEF Next

\* The ring implements the safety part of RequestChannel for all sizes and index widths:
\* no request is lost, repeated or taken out of order, no response goes to a slot that
\* is in use, and each answers a request that was taken and not answered before.
THEOREM ChannelSafety == Spec => Channel!Spec
<1>1. IInv /\ [Next]_vars => [Channel!Next]_Channel!vars
  BY NextMapped
<1> QED
  BY <1>1, InitMapped, Invariance, PTL DEF Spec, Channel!Spec
====
