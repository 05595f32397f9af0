------------------------- MODULE RingBufferOut_proofs -------------------------
(***************************************************************************)
(* RingBufferOut for every number of senders and of events and every index *)
(* width that leaves the cast of sendEvent() its sign.                     *)
(*                                                                         *)
(* The type invariant follows from an invariant of four parts: the types,  *)
(* who has the lock (LockInv), what may wait in a store buffer (StoreInv:  *)
(* the two stores of an event for index in_prod, where there is room,      *)
(* in_prod last), and how many events the page holds (HeldInv).  The room  *)
(* a sender saw is still there when its stores become visible because      *)
(* in_prod is the lock's and in_cons only moves towards it.                *)
(*                                                                         *)
(* With stores in program order and NumEvents a divisor of the index range *)
(* the page implements EventQueue: NumEvents slots in a row are all        *)
(* different, so the store to slot in_prod hits none that the frontend may *)
(* read.                                                                   *)
(***************************************************************************)
EXTENDS RingBufferOut, SequenceTheorems, TLAPS

-----------------------------------------------------------------------------
(* Indices *)

After(i)  == (i + 1) % IndexMod
Gap(i, j) == (j - i + IndexMod) % IndexMod

\* The bounds on the constants: a buffer is less than half of the index range.
LEMMA Bounds ==
  /\ NumEvents \in Nat \ {0} /\ IndexMod \in Nat \ {0} /\ NumEvents < IndexMod - 1
  /\ NumEvents < IndexMod \div 2 /\ MaxEvents \in Nat /\ IndexMod \div 2 \in Int
<1>1. /\ NumEvents \in Nat \ {0} /\ IndexMod \in Nat /\ NumEvents < IndexMod \div 2
      /\ MaxEvents \in Nat
  BY EventAssumption
<1> DEFINE h == IndexMod \div 2
<1>2. h \in Int /\ IndexMod = (2 * h) + (IndexMod % 2) /\ IndexMod % 2 \in 0..1
  BY <1>1
<1> HIDE DEF h
<1>3. NumEvents < h
  BY <1>1 DEF h
<1>4. NumEvents < IndexMod - 1
  BY <1>1, <1>2, <1>3
<1> QED
  BY <1>1, <1>2, <1>4 DEF h

\* An index is an integer below IndexMod.
LEMMA IndexInt ==
  ASSUME NEW i \in Index
  PROVE  i \in Int /\ 0 <= i /\ i < IndexMod /\ IndexMod \in Int
  BY Bounds DEF Index

\* The next index, without the modulus
LEMMA AfterCases ==
  ASSUME NEW i \in Index
  PROVE  After(i) = (IF i + 1 = IndexMod THEN 0 ELSE i + 1) /\ After(i) \in Index
<1>1. i + 1 \in 0..IndexMod /\ IndexMod \in Nat \ {0}
  BY Bounds DEF Index
<1> QED
  BY <1>1 DEF After, Index

\* The distance of two indices, without the modulus
LEMMA GapCases ==
  ASSUME NEW i \in Index, NEW j \in Index
  PROVE  Gap(i, j) = (IF i <= j THEN j - i ELSE j - i + IndexMod) /\ Gap(i, j) \in Index
<1>1. j - i + IndexMod \in 0..2 * IndexMod - 1 /\ IndexMod \in Nat \ {0}
  BY Bounds DEF Index
<1> QED
  BY <1>1 DEF Gap, Index

\* Equal indices are no distance apart.
LEMMA GapZero ==
  ASSUME NEW i \in Index, NEW j \in Index
  PROVE  Gap(i, j) = 0 <=> i = j
<1>1. Gap(i, j) = (IF i <= j THEN j - i ELSE j - i + IndexMod)
  BY GapCases
<1> QED
  BY <1>1, IndexInt

\* The distance grows by one with the index it ends at.
LEMMA GapAfterTo ==
  ASSUME NEW i \in Index, NEW j \in Index, Gap(i, j) < IndexMod - 1
  PROVE  Gap(i, After(j)) = Gap(i, j) + 1
<1>1. After(j) = (IF j + 1 = IndexMod THEN 0 ELSE j + 1) /\ After(j) \in Index
  BY AfterCases
<1>2. /\ Gap(i, j) = (IF i <= j THEN j - i ELSE j - i + IndexMod)
      /\ Gap(i, After(j)) = (IF i <= After(j) THEN After(j) - i ELSE After(j) - i + IndexMod)
  BY <1>1, GapCases
<1> QED
  BY <1>1, <1>2, IndexInt

\* It shrinks by one as the index it starts from moves on.
LEMMA GapAfterFrom ==
  ASSUME NEW i \in Index, NEW j \in Index, i # j
  PROVE  Gap(After(i), j) = Gap(i, j) - 1
<1>1. After(i) = (IF i + 1 = IndexMod THEN 0 ELSE i + 1) /\ After(i) \in Index
  BY AfterCases
<1>2. /\ Gap(i, j) = (IF i <= j THEN j - i ELSE j - i + IndexMod)
      /\ Gap(After(i), j) = (IF After(i) <= j THEN j - After(i) ELSE j - After(i) + IndexMod)
  BY <1>1, GapCases
<1> QED
  BY <1>1, <1>2, IndexInt

-----------------------------------------------------------------------------
(* Sequences of at most two stores *)

\* A subsequence of one element
LEMMA SubSeqOne ==
  ASSUME NEW t, NEW i \in Int
  PROVE  SubSeq(t, i, i) = <<t[i]>>
<1> DEFINE S == {t[i]}
           u == SubSeq(t, i, i)
<1>1. \A k \in i..i : t[k] \in S
  OBVIOUS
<1> HIDE DEF S
<1>2. /\ u \in Seq(S) /\ Len(u) = IF i <= i THEN i - i + 1 ELSE 0
      /\ \A k \in 1..i - i + 1 : u[k] = t[i + k - 1]
  <2>1. u \in Seq(S)
    BY <1>1, SubSeqProperties
  <2>2. Len(u) = IF i <= i THEN i - i + 1 ELSE 0
    BY <1>1, SubSeqProperties
  <2>3. \A k \in 1..i - i + 1 : u[k] = t[i + k - 1]
    BY <1>1, SubSeqProperties
  <2> QED
    BY <2>1, <2>2, <2>3
<1> USE DEF S
<1>3. <<t[i]>> \in Seq(S) /\ Len(<<t[i]>>) = 1 /\ <<t[i]>>[1] = t[i]
  OBVIOUS
<1>4. Len(u) = 1 /\ u[1] = t[i]
  <2>1. i - i + 1 = 1 /\ i + 1 - 1 = i /\ i <= i
    OBVIOUS
  <2> QED
    BY <1>2, <2>1
<1> HIDE DEF S, u
<1>5. u = <<t[i]>>
  <2>1. \A k \in 1..Len(u) : u[k] = <<t[i]>>[k]
    BY <1>4
  <2> QED
    BY <1>2, <1>3, <1>4, <2>1, SeqEqual
<1> QED
  BY <1>5 DEF u

\* RemoveAt() on sequences of one and of two elements
LEMMA Removed ==
  ASSUME NEW a, NEW b
  PROVE  /\ RemoveAt(<<a>>, 1) = << >>
         /\ RemoveAt(<<a, b>>, 1) = <<b>>
         /\ RemoveAt(<<a, b>>, 2) = <<a>>
<1>1. /\ SubSeq(<<a>>, 1, 0) = << >> /\ SubSeq(<<a>>, 2, 1) = << >>
      /\ SubSeq(<<a, b>>, 1, 0) = << >> /\ SubSeq(<<a, b>>, 3, 2) = << >>
  BY SubSeqEmpty
<1>2. SubSeq(<<a, b>>, 1, 1) = <<a>> /\ SubSeq(<<a, b>>, 2, 2) = <<b>>
  BY SubSeqOne
<1>3. Len(<<a>>) = 1 /\ Len(<<a, b>>) = 2
  OBVIOUS
<1>4. << >> \o << >> = << >> /\ << >> \o <<b>> = <<b>> /\ <<a>> \o << >> = <<a>>
  OBVIOUS
<1>5. RemoveAt(<<a>>, 1) = SubSeq(<<a>>, 1, 0) \o SubSeq(<<a>>, 2, 1)
  BY <1>3 DEF RemoveAt
<1>6. RemoveAt(<<a, b>>, 1) = SubSeq(<<a, b>>, 1, 0) \o SubSeq(<<a, b>>, 2, 2)
  BY <1>3 DEF RemoveAt
<1>7. RemoveAt(<<a, b>>, 2) = SubSeq(<<a, b>>, 1, 1) \o SubSeq(<<a, b>>, 3, 2)
  BY <1>3 DEF RemoveAt
<1> QED
  BY <1>1, <1>2, <1>4, <1>5, <1>6, <1>7

-----------------------------------------------------------------------------
(* The inductive invariant *)

\* How many events the page holds
Held == Gap(inCons, inProd)

\* The two stores of an event e that goes to index p
BufferStore(p, e) == [to |-> "buffer", at |-> p % NumEvents, value |-> e]
ProdStore(p)      == [to |-> "in_prod", value |-> After(p)]
Store             == [to : {"buffer"}, at : 0..NumEvents - 1, value : 0..MaxEvents]
                     \union [to : {"in_prod"}, value : Index]

BaseInv ==
  /\ inProd \in Index /\ inCons \in Index
  /\ mEventBuffer \in [0..NumEvents - 1 -> 0..MaxEvents]
  /\ stores \in [Senders -> Seq(Store)]
  /\ calls \in 0..MaxEvents /\ event \in [Senders -> 0..MaxEvents] /\ copied \in 0..MaxEvents
  /\ mMutex \in Senders \union {"none"} /\ pending \in BOOLEAN
  /\ pc \in [Senders \union {"frontend"} ->
               {"idle", "lock", "check", "wmb", "wait", "read", "advance"}]
  /\ \A s \in Senders : pc[s] \in {"idle", "lock", "check", "wmb"}
  /\ pc["frontend"] \in {"wait", "read", "advance"}

\* Who is past the lock holds it, and has an event to send.
LockInv ==
  \A s \in Senders :
    /\ pc[s] \in {"check", "wmb"} => mMutex = s
    /\ pc[s] # "idle" => event[s] \in 1..MaxEvents

\* What a sender has still to store is for the index in_prod, where there is room;
\* in program order in_prod comes when the event is in its place.
StoreInv ==
  \A s \in Senders :
    /\ pc[s] # "wmb" => stores[s] = << >>
    /\ pc[s] = "wmb" =>
         \/ stores[s] = << >>
         \/ stores[s] = <<BufferStore(inProd, event[s]), ProdStore(inProd)>> /\ Held < NumEvents
         \/ /\ stores[s] = <<ProdStore(inProd)>> /\ Held < NumEvents
            /\ mEventBuffer[inProd % NumEvents] = event[s]
         \/ Reorder /\ \E p \in Index : stores[s] = <<BufferStore(p, event[s])>>

HeldInv ==
  /\ Held <= NumEvents
  /\ pc["frontend"] = "advance" => inProd # inCons

IInv == BaseInv /\ LockInv /\ StoreInv /\ HeldInv

\* The slot of an index is one of the buffer.
LEMMA SlotRange ==
  ASSUME NEW i \in Index
  PROVE  i % NumEvents \in 0..NumEvents - 1
<1>1. i \in Int /\ NumEvents \in Nat \ {0}
  BY IndexInt, Bounds
<1> QED
  BY <1>1

\* The stores of an event have the type of a store.
LEMMA StoreTypes ==
  ASSUME NEW p \in Index, NEW e \in 0..MaxEvents
  PROVE  BufferStore(p, e) \in Store /\ ProdStore(p) \in Store
  BY SlotRange, AfterCases DEF BufferStore, ProdStore, Store

\* The fields of the two stores
LEMMA StoreFields ==
  ASSUME NEW p, NEW e
  PROVE  /\ BufferStore(p, e).to = "buffer" /\ BufferStore(p, e).at = p % NumEvents
         /\ BufferStore(p, e).value = e
         /\ ProdStore(p).to # "buffer" /\ ProdStore(p).value = After(p)
  BY DEF BufferStore, ProdStore

\* What a sender does to its stores leaves those of the others alone.
LEMMA OneSender ==
  ASSUME NEW f \in [Senders -> Seq(Store)], NEW s \in Senders, NEW q \in Seq(Store),
         NEW g, g = [f EXCEPT ![s] = q]
  PROVE  /\ g \in [Senders -> Seq(Store)] /\ g[s] = q
         /\ \A u \in Senders : u # s => g[u] = f[u]
  OBVIOUS

\* How many events the page holds is a number, 0 when the indices are equal.
LEMMA HeldInt ==
  ASSUME BaseInv
  PROVE  Held \in Int /\ 0 <= Held /\ (Held = 0 <=> inProd = inCons)
         /\ inProd \in Index /\ inCons \in Index
<1>1. inProd \in Index /\ inCons \in Index
  BY DEF BaseInv
<1> QED
  BY <1>1, GapCases, GapZero, IndexInt DEF Held

\* The same of the next state
LEMMA HeldLater ==
  ASSUME BaseInv'
  PROVE  Held' = 0 <=> inProd' = inCons'
  BY GapZero DEF BaseInv, Held

\* The page as the constructor leaves it satisfies the invariant.
LEMMA InitInv == Init => IInv
<1> SUFFICES ASSUME Init PROVE IInv
  OBVIOUS
<1>1. /\ StartIndex \in Index /\ "none" \notin Senders /\ "frontend" \notin Senders
      /\ 0 \in 0..MaxEvents
  BY EventAssumption, Bounds DEF Index
<1>2. Held = 0
  BY <1>1, GapZero DEF Init, Held
<1>3. BaseInv
  <2>1. << >> \in Seq(Store)
    BY EmptySeq
  <2>2. stores \in [Senders -> Seq(Store)]
    BY <2>1 DEF Init
  <2>3. /\ pc \in [Senders \union {"frontend"} ->
                    {"idle", "lock", "check", "wmb", "wait", "read", "advance"}]
        /\ \A s \in Senders : pc[s] = "idle"
        /\ pc["frontend"] = "wait"
    BY <1>1 DEF Init
  <2> QED
    BY <1>1, <2>2, <2>3 DEF Init, BaseInv
<1>4. LockInv
  BY <1>1 DEF Init, LockInv
<1>5. StoreInv
  BY <1>1 DEF Init, StoreInv
<1>6. HeldInv
  BY <1>1, <1>2, Bounds DEF Init, HeldInv
<1> QED
  BY <1>3, <1>4, <1>5, <1>6 DEF IInv

\* A call takes a new event and touches no page.
LEMMA CallInv ==
  ASSUME IInv, NEW s \in Senders, Call(s)
  PROVE  IInv'
<1> USE DEF IInv
<1>1. /\ pc[s] = "idle" /\ calls < MaxEvents /\ calls' = calls + 1
      /\ event' = [event EXCEPT ![s] = calls + 1] /\ pc' = [pc EXCEPT ![s] = "lock"]
      /\ UNCHANGED <<inProd, inCons, mEventBuffer, stores, mMutex, pending, copied>>
  BY DEF Call, page, Goto
<1>2. /\ pc'[s] = "lock" /\ \A u \in Senders : u # s => pc'[u] = pc[u] /\ event'[u] = event[u]
      /\ pc'["frontend"] = pc["frontend"] /\ event'[s] = calls + 1
  BY <1>1, EventAssumption DEF BaseInv
<1>3. calls + 1 \in 1..MaxEvents
  BY <1>1, Bounds DEF BaseInv
<1>4. BaseInv'
  BY <1>1, <1>2, <1>3 DEF BaseInv
<1>5. LockInv'
  BY <1>1, <1>2, <1>3 DEF LockInv
<1>6. StoreInv' /\ HeldInv'
  <2>1. Held' = Held
    BY <1>1 DEF Held
  <2>2. StoreInv'
    BY <1>1, <1>2, <2>1 DEF StoreInv
  <2> QED
    BY <1>1, <1>2, <2>1, <2>2 DEF HeldInv
<1> QED
  BY <1>4, <1>5, <1>6

\* One sender gets the lock: no other is past it.
LEMMA LockStepInv ==
  ASSUME IInv, NEW s \in Senders, Lock(s)
  PROVE  IInv'
<1> USE DEF IInv
<1>1. /\ pc[s] = "lock" /\ mMutex = "none" /\ mMutex' = s /\ pc' = [pc EXCEPT ![s] = "check"]
      /\ UNCHANGED <<inProd, inCons, mEventBuffer, stores, calls, event, pending, copied>>
  BY DEF Lock, page, Goto
<1>2. /\ pc'[s] = "check" /\ \A u \in Senders : u # s => pc'[u] = pc[u]
      /\ pc'["frontend"] = pc["frontend"]
  BY <1>1, EventAssumption DEF BaseInv
<1>3. BaseInv'
  BY <1>1, <1>2 DEF BaseInv
<1>4. LockInv'
  BY <1>1, <1>2, EventAssumption DEF LockInv
<1>5. StoreInv' /\ HeldInv'
  <2>1. Held' = Held
    BY <1>1 DEF Held
  <2>2. StoreInv'
    BY <1>1, <1>2, <2>1 DEF StoreInv
  <2> QED
    BY <1>1, <1>2, <2>1, <2>2 DEF HeldInv
<1> QED
  BY <1>3, <1>4, <1>5

\* The cast to int changes nothing while the page holds no more than it has room for.
LEMMA UsedIsHeld ==
  ASSUME IInv
  PROVE  Used = Held
<1>1. Held <= NumEvents /\ Held \in Int
  BY HeldInt DEF IInv, HeldInv
<1>2. ~(Held >= IndexMod \div 2)
  BY <1>1, Bounds
<1> QED
  BY <1>2 DEF Used, Held, Gap

\* The check leaves room for the one event that follows it: nobody else can add
\* one before the lock is released, the frontend can only take some away.
LEMMA CheckOverflowInv ==
  ASSUME IInv, NEW s \in Senders, CheckOverflow(s)
  PROVE  IInv'
<1> USE DEF IInv
<1>1. /\ pc[s] = "check" /\ mMutex = s
      /\ UNCHANGED <<inProd, inCons, mEventBuffer, calls, event, pending, copied>>
  BY DEF CheckOverflow, Send, page, Goto, LockInv
<1>2. Held' = Held /\ \A u \in Senders : u # s => pc[u] \notin {"check", "wmb"}
  BY <1>1 DEF Held, LockInv
<1>3. event[s] \in 0..MaxEvents /\ inProd \in Index
  BY DEF BaseInv
<1>4. CASE /\ pc' = [pc EXCEPT ![s] = "idle"] /\ mMutex' = "none" /\ UNCHANGED stores
  <2>1. /\ pc'[s] = "idle" /\ \A u \in Senders : u # s => pc'[u] = pc[u]
        /\ pc'["frontend"] = pc["frontend"]
    BY <1>4, EventAssumption DEF BaseInv
  <2>2. BaseInv'
    BY <1>1, <1>4, <2>1 DEF BaseInv
  <2>3. LockInv'
    BY <1>1, <1>2, <2>1 DEF LockInv
  <2>4. StoreInv'
    BY <1>1, <1>2, <1>4, <2>1 DEF StoreInv
  <2> QED
    BY <1>1, <1>2, <2>1, <2>2, <2>3, <2>4 DEF HeldInv
<1>5. CASE /\ Held < NumEvents /\ pc' = [pc EXCEPT ![s] = "wmb"] /\ UNCHANGED mMutex
           /\ stores' = [stores EXCEPT ![s] = <<BufferStore(inProd, event[s]), ProdStore(inProd)>>]
  <2>1. /\ pc'[s] = "wmb" /\ \A u \in Senders : u # s => pc'[u] = pc[u]
        /\ pc'["frontend"] = pc["frontend"]
    BY <1>5, EventAssumption DEF BaseInv
  <2>2. <<BufferStore(inProd, event[s]), ProdStore(inProd)>> \in Seq(Store)
    BY <1>3, StoreTypes
  <2>3. /\ stores' \in [Senders -> Seq(Store)]
        /\ stores'[s] = <<BufferStore(inProd, event[s]), ProdStore(inProd)>>
        /\ \A u \in Senders : u # s => stores'[u] = stores[u]
    BY <1>5, <2>2 DEF BaseInv
  <2>4. BaseInv'
    BY <1>1, <1>5, <2>1, <2>3 DEF BaseInv
  <2>5. LockInv'
    BY <1>1, <1>2, <1>5, <2>1 DEF LockInv
  <2>6. StoreInv'
    <3>1. ASSUME NEW u \in Senders
          PROVE  /\ pc'[u] # "wmb" => stores'[u] = << >>
                 /\ pc'[u] = "wmb" => u = s
      BY <1>2, <2>1, <2>3 DEF StoreInv
    <3>2. /\ stores'[s] = <<BufferStore(inProd', event'[s]), ProdStore(inProd')>>
          /\ Held' < NumEvents
      BY <1>1, <1>2, <1>5, <2>3
    <3> QED
      BY <3>1, <3>2 DEF StoreInv
  <2> QED
    BY <1>1, <1>2, <2>1, <2>4, <2>5, <2>6 DEF HeldInv
<1> QED
  <2>1. Used = Held /\ Held \in Int /\ NumEvents \in Int
    BY UsedIsHeld, HeldInt, Bounds
  <2>2. Stores(s) = <<BufferStore(inProd, event[s]), ProdStore(inProd)>>
    BY DEF Stores, BufferStore, ProdStore, After
  <2> QED
    BY <1>4, <1>5, <2>1, <2>2 DEF CheckOverflow, Send, Goto

\* The sender waits for its stores alone: the others are not past the lock.
LEMMA StoreVisibleInv ==
  ASSUME IInv, NEW s \in Senders, StoreVisible(s)
  PROVE  IInv'
<1> USE DEF IInv
<1> PICK i \in DOMAIN stores[s] :
      /\ stores[s][i].to = "buffer" =>
           /\ mEventBuffer' = [mEventBuffer EXCEPT ![stores[s][i].at] = stores[s][i].value]
           /\ inProd' = inProd
      /\ stores[s][i].to # "buffer" =>
           inProd' = stores[s][i].value /\ mEventBuffer' = mEventBuffer
      /\ stores' = [stores EXCEPT ![s] = RemoveAt(stores[s], i)]
      /\ i = 1 \/ Reorder
  BY DEF StoreVisible
<1>1. UNCHANGED <<inCons, calls, event, mMutex, pending, copied, pc>>
  BY DEF StoreVisible
<1>2. /\ event[s] \in 0..MaxEvents /\ inProd \in Index /\ inCons \in Index
      /\ mEventBuffer \in [0..NumEvents - 1 -> 0..MaxEvents]
  BY DEF BaseInv
<1>3. pc[s] = "wmb"
  BY DEF StoreInv
<1>4. \A u \in Senders : u # s => pc[u] # "wmb"
  BY <1>3 DEF LockInv
<1>5. ASSUME NEW q \in Seq(Store), stores' = [stores EXCEPT ![s] = q]
      PROVE  /\ stores' \in [Senders -> Seq(Store)] /\ stores'[s] = q
             /\ \A u \in Senders : u # s => stores'[u] = stores[u]
  <2>1. stores \in [Senders -> Seq(Store)]
    BY DEF BaseInv
  <2> QED
    BY <1>5, <2>1, OneSender
<1>6. inProd % NumEvents \in 0..NumEvents - 1 /\ After(inProd) \in Index
  BY <1>2, SlotRange, AfterCases
<1>7. Held < NumEvents => Gap(inCons, After(inProd)) = Held + 1
  BY <1>2, GapAfterTo, HeldInt, Bounds DEF Held
<1>8. << >> \in Seq(Store) /\ <<BufferStore(inProd, event[s])>> \in Seq(Store)
      /\ <<ProdStore(inProd)>> \in Seq(Store)
  BY <1>2, StoreTypes
<1>9. LockInv'
  BY <1>1 DEF LockInv
<1>10. CASE stores[s] = <<BufferStore(inProd, event[s]), ProdStore(inProd)>> /\ Held < NumEvents
  <2>1. DOMAIN stores[s] = {1, 2}
    BY <1>10
  <2>2. CASE i = 1
    <3>1. /\ mEventBuffer' = [mEventBuffer EXCEPT ![inProd % NumEvents] = event[s]]
          /\ UNCHANGED inProd /\ stores' = [stores EXCEPT ![s] = <<ProdStore(inProd)>>]
      <4>1. stores[s][i] = BufferStore(inProd, event[s])
        BY <1>10, <2>2
      <4>2. RemoveAt(stores[s], i) = <<ProdStore(inProd)>>
        <5>1. RemoveAt(<<BufferStore(inProd, event[s]), ProdStore(inProd)>>, 1) = <<ProdStore(inProd)>>
          BY Removed
        <5> QED
          BY <1>10, <2>2, <5>1
      <4>3. /\ stores[s][i].to = "buffer" /\ stores[s][i].at = inProd % NumEvents
            /\ stores[s][i].value = event[s]
        BY <4>1, StoreFields
      <4> QED
        BY <4>2, <4>3
    <3>2. /\ stores' \in [Senders -> Seq(Store)] /\ stores'[s] = <<ProdStore(inProd)>>
          /\ \A u \in Senders : u # s => stores'[u] = stores[u]
      BY <1>5, <1>8, <3>1
    <3>3. BaseInv'
      BY <1>1, <1>2, <3>1, <3>2 DEF BaseInv
    <3>4. Held' = Held
      BY <1>1, <3>1 DEF Held
    <3>5. mEventBuffer'[inProd' % NumEvents] = event'[s]
      BY <1>1, <1>2, <1>6, <3>1
    <3>6. StoreInv'
      BY <1>1, <1>3, <1>4, <1>10, <3>1, <3>2, <3>4, <3>5 DEF StoreInv
    <3> QED
      BY <1>1, <1>9, <3>1, <3>3, <3>4, <3>6 DEF HeldInv
  <2>3. CASE i = 2
    <3>1. /\ UNCHANGED mEventBuffer /\ inProd' = After(inProd)
          /\ stores' = [stores EXCEPT ![s] = <<BufferStore(inProd, event[s])>>] /\ Reorder
      <4>1. stores[s][i] = ProdStore(inProd)
        BY <1>10, <2>3
      <4>2. RemoveAt(stores[s], i) = <<BufferStore(inProd, event[s])>>
        <5>1. RemoveAt(<<BufferStore(inProd, event[s]), ProdStore(inProd)>>, 2) = <<BufferStore(inProd, event[s])>>
          BY Removed
        <5> QED
          BY <1>10, <2>3, <5>1
      <4>3. stores[s][i].to # "buffer" /\ stores[s][i].value = After(inProd)
        BY <4>1, StoreFields
      <4>4. Reorder
        BY <2>3
      <4>5. mEventBuffer' = mEventBuffer /\ inProd' = After(inProd)
        BY <4>3
      <4>6. stores' = [stores EXCEPT ![s] = <<BufferStore(inProd, event[s])>>]
        BY <4>2
      <4> QED
        BY <4>4, <4>5, <4>6
    <3>2. /\ stores' \in [Senders -> Seq(Store)] /\ stores'[s] = <<BufferStore(inProd, event[s])>>
          /\ \A u \in Senders : u # s => stores'[u] = stores[u]
      BY <1>5, <1>8, <3>1
    <3>3. BaseInv'
      BY <1>1, <1>2, <1>6, <3>1, <3>2 DEF BaseInv
    <3>4. Held' = Held + 1
      BY <1>1, <1>7, <1>10, <3>1 DEF Held
    <3>5. StoreInv'
      BY <1>1, <1>2, <1>3, <1>4, <3>1, <3>2 DEF StoreInv
    <3>6. HeldInv'
      BY <1>1, <1>10, <3>3, <3>4, HeldInt, Bounds, HeldLater DEF HeldInv
    <3> QED
      BY <1>9, <3>3, <3>5, <3>6
  <2> QED
    BY <2>1, <2>2, <2>3
<1>11. CASE /\ stores[s] = <<ProdStore(inProd)>> /\ Held < NumEvents
  <2>1. DOMAIN stores[s] = {1}
    BY <1>11
  <2>2. /\ UNCHANGED mEventBuffer /\ inProd' = After(inProd)
        /\ stores' = [stores EXCEPT ![s] = << >>]
    <3>1. stores[s][i] = ProdStore(inProd)
      BY <1>11, <2>1
    <3>2. RemoveAt(stores[s], i) = << >>
      BY <1>11, <2>1, Removed
    <3>3. stores[s][i].to # "buffer" /\ stores[s][i].value = After(inProd)
      BY <3>1, StoreFields
    <3> QED
      BY <3>2, <3>3
  <2>3. /\ stores' \in [Senders -> Seq(Store)] /\ stores'[s] = << >>
        /\ \A u \in Senders : u # s => stores'[u] = stores[u]
    BY <1>5, <1>8, <2>2
  <2>4. BaseInv'
    BY <1>1, <1>2, <1>6, <2>2, <2>3 DEF BaseInv
  <2>5. Held' = Held + 1
    BY <1>1, <1>7, <1>11, <2>2 DEF Held
  <2>6. StoreInv'
    BY <1>1, <1>3, <1>4, <2>3 DEF StoreInv
  <2>7. HeldInv'
    BY <1>1, <1>11, <2>4, <2>5, HeldInt, Bounds, HeldLater DEF HeldInv
  <2> QED
    BY <1>9, <2>4, <2>6, <2>7
<1>12. CASE Reorder /\ \E p \in Index : stores[s] = <<BufferStore(p, event[s])>>
  <2> PICK p \in Index : stores[s] = <<BufferStore(p, event[s])>>
    BY <1>12
  <2>1. DOMAIN stores[s] = {1}
    OBVIOUS
  <2>2. /\ mEventBuffer' = [mEventBuffer EXCEPT ![p % NumEvents] = event[s]]
        /\ UNCHANGED inProd /\ stores' = [stores EXCEPT ![s] = << >>]
    <3>1. stores[s][i] = BufferStore(p, event[s])
      BY <2>1
    <3>2. RemoveAt(stores[s], i) = << >>
      BY <2>1, Removed
    <3>3. /\ stores[s][i].to = "buffer" /\ stores[s][i].at = p % NumEvents
          /\ stores[s][i].value = event[s]
      BY <3>1, StoreFields
    <3> QED
      BY <3>2, <3>3
  <2>3. /\ stores' \in [Senders -> Seq(Store)] /\ stores'[s] = << >>
        /\ \A u \in Senders : u # s => stores'[u] = stores[u]
    BY <1>5, <1>8, <2>2
  <2>4. BaseInv'
    BY <1>1, <1>2, <2>2, <2>3 DEF BaseInv
  <2>5. Held' = Held
    BY <1>1, <2>2 DEF Held
  <2>6. StoreInv'
    BY <1>1, <1>3, <1>4, <2>3 DEF StoreInv
  <2> QED
    BY <1>1, <1>9, <2>2, <2>4, <2>5, <2>6 DEF HeldInv
<1> QED
  <2>1. stores[s] # << >>
    BY DEF BaseInv
  <2> QED
    BY <1>3, <1>10, <1>11, <1>12, <2>1 DEF StoreInv

\* With both stores visible the lock may go to the next sender.
LEMMA NotifyInv ==
  ASSUME IInv, NEW s \in Senders, Notify(s)
  PROVE  IInv'
<1> USE DEF IInv
<1>1. /\ pc[s] = "wmb" /\ stores[s] = << >> /\ pending' = TRUE /\ mMutex' = "none"
      /\ pc' = [pc EXCEPT ![s] = "idle"]
      /\ UNCHANGED <<inProd, inCons, mEventBuffer, stores, calls, event, copied>>
  BY DEF Notify, page, Goto
<1>2. /\ pc'[s] = "idle" /\ \A u \in Senders : u # s => pc'[u] = pc[u]
      /\ pc'["frontend"] = pc["frontend"]
  BY <1>1, EventAssumption DEF BaseInv
<1>3. BaseInv'
  BY <1>1, <1>2 DEF BaseInv
<1>4. LockInv'
  BY <1>1, <1>2 DEF LockInv
<1>5. Held' = Held
  BY <1>1 DEF Held
<1>6. StoreInv'
  BY <1>1, <1>2, <1>5 DEF StoreInv
<1> QED
  BY <1>1, <1>2, <1>3, <1>4, <1>5, <1>6 DEF HeldInv

\* The frontend takes away only events that are there.
LEMMA FrontendInv ==
  ASSUME IInv, Frontend
  PROVE  IInv'
<1> USE DEF IInv
<1>1. /\ UNCHANGED <<inProd, mEventBuffer, stores, calls, event, mMutex>>
      /\ \A u \in Senders : pc'[u] = pc[u]
  BY EventAssumption DEF Frontend, Woken, CopyEvent, Advance, page, Goto, BaseInv
<1>2. LockInv'
  BY <1>1 DEF LockInv
<1>3. inProd \in Index /\ inCons \in Index
  BY DEF BaseInv
<1>4. CASE Woken
  <2>1. /\ pc' = [pc EXCEPT !["frontend"] = "read"] /\ pc'["frontend"] = "read"
        /\ pending' = FALSE /\ UNCHANGED <<inCons, copied>>
    BY <1>4 DEF Woken, Goto, page, BaseInv
  <2>2. BaseInv'
    BY <1>1, <2>1 DEF BaseInv
  <2>3. Held' = Held
    BY <1>1, <2>1 DEF Held
  <2> QED
    BY <1>1, <1>2, <2>1, <2>2, <2>3 DEF StoreInv, HeldInv
<1>5. CASE CopyEvent
  <2>1. UNCHANGED <<inCons, pending>> /\ Held' = Held
    BY <1>5 DEF CopyEvent, page, Held
  <2>2. copied' \in 0..MaxEvents
    BY <1>3, <1>5, SlotRange DEF CopyEvent, BaseInv
  <2>3. /\ \/ pc' = [pc EXCEPT !["frontend"] = "wait"]
           \/ pc' = [pc EXCEPT !["frontend"] = "advance"] /\ inProd # inCons
    BY <1>5 DEF CopyEvent, Goto
  <2>4. pc'["frontend"] \in {"wait", "advance"} /\ (pc'["frontend"] = "advance" => inProd # inCons)
    BY <2>3 DEF BaseInv
  <2>5. BaseInv'
    BY <1>1, <2>1, <2>2, <2>3, <2>4 DEF BaseInv
  <2> QED
    BY <1>1, <1>2, <2>1, <2>4, <2>5 DEF StoreInv, HeldInv
<1>6. CASE Advance
  <2>1. /\ pc' = [pc EXCEPT !["frontend"] = "read"] /\ pc'["frontend"] = "read"
        /\ inCons' = After(inCons) /\ inProd # inCons /\ UNCHANGED <<pending, copied>>
    BY <1>6 DEF Advance, Goto, BaseInv, HeldInv, After
  <2>2. BaseInv'
    BY <1>1, <1>3, <2>1, AfterCases DEF BaseInv
  <2>3. Held' = Held - 1 /\ Held \in Int /\ NumEvents \in Int
    BY <1>1, <1>3, <2>1, GapAfterFrom, HeldInt, Bounds DEF Held
  <2>4. StoreInv'
    BY <1>1, <2>1, <2>3 DEF StoreInv
  <2> QED
    BY <1>1, <1>2, <2>1, <2>2, <2>3, <2>4 DEF HeldInv
<1> QED
  BY <1>4, <1>5, <1>6 DEF Frontend

\* IInv is inductive.
LEMMA NextInv == IInv /\ [Next]_vars => IInv'
<1> SUFFICES ASSUME IInv, [Next]_vars PROVE IInv'
  OBVIOUS
<1>1. CASE \E s \in Senders : Call(s) \/ SendEvent(s)
  BY <1>1, CallInv, LockStepInv, CheckOverflowInv, StoreVisibleInv, NotifyInv DEF SendEvent
<1>2. CASE Frontend
  BY <1>2, FrontendInv
<1>3. CASE UNCHANGED vars
  <2>1. UNCHANGED <<inProd, inCons, mEventBuffer, stores, calls, event, mMutex, pending, copied, pc>>
    BY <1>3 DEF vars, page
  <2>2. BaseInv'
    BY <2>1 DEF IInv, BaseInv
  <2>3. LockInv' /\ StoreInv' /\ HeldInv'
    BY <2>1 DEF IInv, LockInv, StoreInv, HeldInv, Held
  <2> QED
    BY <2>2, <2>3 DEF IInv
<1> QED
  BY <1>1, <1>2, <1>3 DEF Next

\* Every reachable state satisfies the inductive invariant.
THEOREM Invariance == Spec => []IInv
  BY InitInv, NextInv, PTL DEF Spec

\* Every variable has its type, and sendEvent() never counts less than 0 nor more
\* than NumEvents events in the page, wherever in_prod and in_cons have wrapped to.
THEOREM TypeCorrect == Spec => []TypeOK
<1>1. IInv => TypeOK
  <2> SUFFICES ASSUME IInv PROVE TypeOK
    OBVIOUS
  <2>1. Used \in 0..NumEvents
    BY UsedIsHeld, HeldInt, Bounds DEF IInv, HeldInv
  <2> QED
    BY <2>1 DEF IInv, BaseInv, TypeOK
<1> QED
  BY <1>1, Invariance, PTL

-----------------------------------------------------------------------------
(* Slots *)

\* Quotient and remainder
LEMMA DivMod ==
  ASSUME NEW m \in Nat \ {0}, NEW a \in Int
  PROVE  /\ a \div m \in Int /\ a % m \in 0..m - 1
         /\ a = (m * (a \div m)) + (a % m)
  OBVIOUS

\* Only one remainder fits.
LEMMA ModUnique ==
  ASSUME NEW m \in Nat \ {0}, NEW q \in Int, NEW r \in 0..m - 1
  PROVE  ((m * q) + r) % m = r
  OBVIOUS

\* Two numbers less than NumEvents apart have different slots.
LEMMA SlotsDiffer ==
  ASSUME NEW a \in Int, NEW b \in Int, a < b, b - a < NumEvents
  PROVE  a % NumEvents # b % NumEvents
<1> SUFFICES ASSUME a % NumEvents = b % NumEvents PROVE FALSE
  OBVIOUS
<1> DEFINE q == a \div NumEvents
           u == b \div NumEvents
<1>1. /\ q \in Int /\ u \in Int /\ a % NumEvents \in Int
      /\ a = (NumEvents * q) + (a % NumEvents) /\ b = (NumEvents * u) + (a % NumEvents)
  BY DivMod, Bounds
<1> HIDE DEF q, u
<1>2. NumEvents * u - NumEvents * q = b - a
  BY <1>1, Bounds
<1>3. NumEvents * (u - q) = b - a
  BY <1>1, <1>2, Bounds
<1>4. u - q >= 1 => NumEvents * (u - q) >= NumEvents
  BY <1>1, Bounds
<1>5. u - q <= 0 => NumEvents * (u - q) <= 0
  BY <1>1, Bounds
<1> QED
  BY <1>1, <1>3, <1>4, <1>5, Bounds

Divides == IndexMod % NumEvents = 0

\* NumEvents divides IndexMod: the slot of a number is that of its index.
LEMMA SlotOfMod ==
  ASSUME Divides, NEW a \in Int
  PROVE  (a % IndexMod) % NumEvents = a % NumEvents
<1> DEFINE c == IndexMod \div NumEvents
           q == a \div IndexMod
           r == a % IndexMod
           d == r \div NumEvents
           e == r % NumEvents
<1>1. c \in Int /\ IndexMod = NumEvents * c
  BY DivMod, Bounds DEF Divides
<1>2. q \in Int /\ r \in Int /\ a = (IndexMod * q) + r
  BY DivMod, Bounds
<1>3. d \in Int /\ e \in 0..NumEvents - 1 /\ r = (NumEvents * d) + e
  BY <1>2, DivMod, Bounds
<1> HIDE DEF c, q, r, d, e
<1>4. (NumEvents * c) * q = NumEvents * (c * q)
  BY <1>1, <1>2, Bounds
<1>5. NumEvents * ((c * q) + d) = NumEvents * (c * q) + NumEvents * d
  BY <1>1, <1>2, <1>3, Bounds
<1>6. a = (NumEvents * ((c * q) + d)) + e
  BY <1>1, <1>2, <1>3, <1>4, <1>5, Bounds
<1>7. a % NumEvents = e
  <2>1. (c * q) + d \in Int
    BY <1>1, <1>2, <1>3
  <2>2. ((NumEvents * ((c * q) + d)) + e) % NumEvents = e
    BY <1>3, <2>1, ModUnique, Bounds
  <2> QED
    BY <1>6, <2>2
<1> QED
  BY <1>7 DEF e, r

\* Numbers with one slot share it after the same number of steps.
LEMMA SlotShift ==
  ASSUME NEW a \in Int, NEW b \in Int, a % NumEvents = b % NumEvents, NEW m \in Int
  PROVE  (a + m) % NumEvents = (b + m) % NumEvents
<1> DEFINE q == a \div NumEvents
           r == a % NumEvents
           t == b \div NumEvents
           u == (r + m) \div NumEvents
           v == (r + m) % NumEvents
<1>1. /\ q \in Int /\ t \in Int /\ r \in Int
      /\ a = (NumEvents * q) + r /\ b = (NumEvents * t) + r
  BY DivMod, Bounds
<1>2. u \in Int /\ v \in 0..NumEvents - 1 /\ r + m = (NumEvents * u) + v
  BY <1>1, DivMod, Bounds
<1> HIDE DEF q, r, t, u, v
<1>3. /\ NumEvents * (q + u) = NumEvents * q + NumEvents * u
      /\ NumEvents * (t + u) = NumEvents * t + NumEvents * u
  BY <1>1, <1>2, Bounds
<1>4. /\ a + m = (NumEvents * (q + u)) + v
      /\ b + m = (NumEvents * (t + u)) + v
  BY <1>1, <1>2, <1>3, Bounds
<1>5. q + u \in Int /\ t + u \in Int
  BY <1>1, <1>2
<1>6. ((NumEvents * (q + u)) + v) % NumEvents = v /\ ((NumEvents * (t + u)) + v) % NumEvents = v
  BY <1>2, <1>5, ModUnique, Bounds
<1> QED
  BY <1>4, <1>6

-----------------------------------------------------------------------------
(* The queue: n slots of a buffer from number i on *)

QueueOf(b, i, n) == [k \in 1..n |-> b[(i + (k - 1)) % NumEvents]]
Buffer           == [0..NumEvents - 1 -> 0..MaxEvents]

\* A number modulo NumEvents is a slot.
LEMMA SlotIn ==
  ASSUME NEW a \in Int
  PROVE  a % NumEvents \in 0..NumEvents - 1
  BY DivMod, Bounds

\* The queue is a sequence of n events.
LEMMA QueueSeq ==
  ASSUME NEW b \in Buffer, NEW i \in Int, NEW n \in Nat
  PROVE  /\ QueueOf(b, i, n) \in Seq(0..MaxEvents) /\ Len(QueueOf(b, i, n)) = n
         /\ \A k \in 1..n : QueueOf(b, i, n)[k] = b[(i + (k - 1)) % NumEvents]
<1>1. \A k \in 1..n : b[(i + (k - 1)) % NumEvents] \in 0..MaxEvents
  <2> TAKE k \in 1..n
  <2>1. i + (k - 1) \in Int
    OBVIOUS
  <2>2. (i + (k - 1)) % NumEvents \in 0..NumEvents - 1
    BY <2>1, SlotIn
  <2> QED
    BY <2>2 DEF Buffer
<1>2. QueueOf(b, i, n) \in [1..n -> 0..MaxEvents]
  BY <1>1 DEF QueueOf
<1>3. QueueOf(b, i, n) \in Seq(0..MaxEvents)
  BY <1>2, SeqDef
<1>4. Len(QueueOf(b, i, n)) = n
  BY <1>2, <1>3, LenProperties DEF QueueOf
<1> QED
  BY <1>3, <1>4 DEF QueueOf

\* Begun one slot later, it has lost its head.
LEMMA QueueTail ==
  ASSUME NEW b \in Buffer, NEW i \in Int, NEW n \in Nat \ {0}
  PROVE  /\ QueueOf(b, i, n) # << >> /\ Head(QueueOf(b, i, n)) = b[i % NumEvents]
         /\ QueueOf(b, i + 1, n - 1) = Tail(QueueOf(b, i, n))
<1> DEFINE w == QueueOf(b, i, n)
           v == QueueOf(b, i + 1, n - 1)
<1>1. /\ w \in Seq(0..MaxEvents) /\ Len(w) = n
      /\ \A k \in 1..n : w[k] = b[(i + (k - 1)) % NumEvents]
  BY QueueSeq
<1>2. /\ v \in Seq(0..MaxEvents) /\ Len(v) = n - 1
      /\ \A k \in 1..n - 1 : v[k] = b[((i + 1) + (k - 1)) % NumEvents]
  <2>1. n - 1 \in Nat /\ i + 1 \in Int
    OBVIOUS
  <2> QED
    BY <2>1, QueueSeq
<1> HIDE DEF w, v
<1>3. w # << >>
  BY <1>1, EmptySeq
<1>4. /\ Tail(w) \in Seq(0..MaxEvents) /\ Len(Tail(w)) = n - 1
      /\ \A k \in 1..n - 1 : Tail(w)[k] = w[k + 1]
  BY <1>1, <1>3, HeadTailProperties
<1>5. Head(w) = b[i % NumEvents]
  <2>1. Head(w) = w[1]
    BY <1>1, <1>3
  <2>2. w[1] = b[(i + (1 - 1)) % NumEvents] /\ i + (1 - 1) = i
    BY <1>1
  <2> QED
    BY <2>1, <2>2
<1>6. ASSUME NEW k \in 1..n - 1
      PROVE  v[k] = Tail(w)[k]
  <2>1. k + 1 \in 1..n /\ (i + 1) + (k - 1) = i + ((k + 1) - 1)
    OBVIOUS
  <2>2. w[k + 1] = b[(i + ((k + 1) - 1)) % NumEvents]
    BY <1>1, <2>1
  <2> QED
    BY <1>2, <1>4, <2>1, <2>2
<1>7. v = Tail(w)
  BY <1>2, <1>4, <1>6, SeqEqual
<1> QED
  BY <1>3, <1>5, <1>7 DEF w, v

\* One slot longer, it has one more event.
LEMMA QueueAppend ==
  ASSUME NEW b \in Buffer, NEW i \in Int, NEW n \in Nat
  PROVE  QueueOf(b, i, n + 1) = Append(QueueOf(b, i, n), b[(i + n) % NumEvents])
<1> DEFINE w == QueueOf(b, i, n)
           v == QueueOf(b, i, n + 1)
           e == b[(i + n) % NumEvents]
<1>1. /\ w \in Seq(0..MaxEvents) /\ Len(w) = n
      /\ \A k \in 1..n : w[k] = b[(i + (k - 1)) % NumEvents]
  BY QueueSeq
<1>2. /\ v \in Seq(0..MaxEvents) /\ Len(v) = n + 1
      /\ \A k \in 1..n + 1 : v[k] = b[(i + (k - 1)) % NumEvents]
  BY QueueSeq
<1>3. e \in 0..MaxEvents
  <2>1. (i + n) % NumEvents \in 0..NumEvents - 1
    BY SlotIn
  <2> QED
    BY <2>1 DEF Buffer
<1> HIDE DEF w, v
<1>4. v[n + 1] = e
  <2>1. n + 1 \in 1..n + 1 /\ (n + 1) - 1 = n
    OBVIOUS
  <2> QED
    BY <1>2, <2>1
<1> HIDE DEF e
<1>5. /\ Append(w, e) \in Seq(0..MaxEvents) /\ Len(Append(w, e)) = n + 1
      /\ \A k \in 1..n : Append(w, e)[k] = w[k]
      /\ Append(w, e)[n + 1] = e
  BY <1>1, <1>3, AppendProperties
<1>6. ASSUME NEW k \in 1..n + 1
      PROVE  v[k] = Append(w, e)[k]
  <2>1. CASE k = n + 1
    BY <1>4, <1>5, <2>1
  <2>2. CASE k \in 1..n
    BY <1>1, <1>2, <1>5, <2>2
  <2>3. k = n + 1 \/ k \in 1..n
    OBVIOUS
  <2> QED
    BY <2>1, <2>2, <2>3
<1>7. v = Append(w, e)
  BY <1>2, <1>5, <1>6, SeqEqual
<1> QED
  BY <1>7 DEF w, v, e

\* A queue is what its slots hold.
LEMMA QueueSame ==
  ASSUME NEW b, NEW c, NEW i, NEW j, NEW n,
         \A k \in 1..n : c[(j + (k - 1)) % NumEvents] = b[(i + (k - 1)) % NumEvents]
  PROVE  QueueOf(c, j, n) = QueueOf(b, i, n)
  BY DEF QueueOf

-----------------------------------------------------------------------------
(* Refinement *)

\* How many events the frontend has not copied
Waiting == IF pc["frontend"] = "advance" THEN Held - 1 ELSE Held

\* The queue of the refinement mapping starts at Unread, which Advance wraps, and
\* ends at in_prod.
LEMMA QueueIs ==
  ASSUME IInv, Divides
  PROVE  /\ Queue = QueueOf(mEventBuffer, Unread, Waiting)
         /\ mEventBuffer \in Buffer /\ Unread \in Int /\ Waiting \in Nat
         /\ Waiting <= Held /\ Held <= NumEvents /\ Held \in Nat
         /\ (Unread + Waiting) % NumEvents = inProd % NumEvents
<1>1. /\ inProd \in Index /\ inCons \in Index /\ mEventBuffer \in Buffer
  BY DEF IInv, BaseInv, Buffer
<1>2. /\ inProd \in Int /\ inCons \in Int /\ IndexMod \in Nat \ {0} /\ 0 <= inCons
      /\ inCons < IndexMod /\ inProd < IndexMod /\ 0 <= inProd
  BY <1>1, IndexInt, Bounds
<1>3. /\ Held = (IF inCons <= inProd THEN inProd - inCons ELSE inProd - inCons + IndexMod)
      /\ Held <= NumEvents
      /\ pc["frontend"] = "advance" => inProd # inCons
  BY <1>1, GapCases DEF Held, IInv, HeldInv
<1>4. /\ Unread \in Int /\ Waiting \in Nat /\ Waiting <= Held /\ Held \in Nat
      /\ Unread + Waiting = inCons + Held
  BY <1>2, <1>3 DEF Unread, Waiting
<1>5. (inProd - Unread + IndexMod) % IndexMod = Waiting
  <2>1. CASE pc["frontend"] = "advance"
    <3>1. Waiting = (IF inCons <= inProd THEN inProd - inCons - 1 ELSE inProd - inCons - 1 + IndexMod)
          /\ inProd - Unread + IndexMod = inProd - inCons - 1 + IndexMod /\ inProd # inCons
      BY <1>2, <1>3, <2>1 DEF Unread, Waiting
    <3> QED
      BY <1>2, <3>1
  <2>2. CASE pc["frontend"] # "advance"
    BY <1>2, <2>2 DEF Unread, Waiting, Held, Gap
  <2> QED
    BY <2>1, <2>2
<1>6. ASSUME NEW k \in 1..Waiting
      PROVE  ((Unread + k - 1) % IndexMod) % NumEvents = (Unread + (k - 1)) % NumEvents
  <2>1. Unread + k - 1 = Unread + (k - 1) /\ Unread + (k - 1) \in Int
    BY <1>4
  <2> QED
    BY <2>1, SlotOfMod
<1>7. Queue = QueueOf(mEventBuffer, Unread, Waiting)
  BY <1>5, <1>6 DEF Queue, QueueOf
<1>8. (Unread + Waiting) % NumEvents = inProd % NumEvents
  <2>1. (inCons + Held) % IndexMod = inProd
    BY <1>2, <1>3
  <2>2. inCons + Held \in Int
    BY <1>2, <1>4
  <2> QED
    BY <1>4, <2>1, <2>2, SlotOfMod
<1> QED
  BY <1>1, <1>3, <1>4, <1>7, <1>8

\* The fresh page is the empty queue.
LEMMA InitQueue ==
  ASSUME Init
  PROVE  EventsArrive!Init
<1>1. inProd = inCons /\ inCons \in Index /\ pc["frontend"] = "wait" /\ copied = 0
  BY EventAssumption DEF Init, Index
<1>2. (inProd - Unread + IndexMod) % IndexMod = 0
  BY <1>1, GapZero DEF Unread, Gap
<1>3. Queue = << >>
  BY <1>2 DEF Queue
<1> QED
  BY <1>1, <1>3 DEF EventsArrive!Init

\* What the queue does not show
LEMMA SameQueue ==
  ASSUME UNCHANGED <<inProd, inCons, mEventBuffer, copied>>,
         pc["frontend"] = "advance" <=> pc'["frontend"] = "advance"
  PROVE  UNCHANGED EventsArrive!vars
  BY DEF EventsArrive!vars, Queue, Unread

\* Of a sender only its stores show.
LEMMA SenderStutters ==
  ASSUME IInv, NEW s \in Senders, Call(s) \/ Lock(s) \/ CheckOverflow(s) \/ Notify(s)
  PROVE  UNCHANGED EventsArrive!vars
<1>1. UNCHANGED <<inProd, inCons, mEventBuffer, copied>>
  BY DEF Call, Lock, CheckOverflow, Send, Notify, page
<1>2. pc'["frontend"] = pc["frontend"]
  <2>1. \A l : [pc EXCEPT ![s] = l]["frontend"] = pc["frontend"]
    BY EventAssumption DEF IInv, BaseInv
  <2>2. \E l : pc' = [pc EXCEPT ![s] = l]
    BY DEF Call, Lock, CheckOverflow, Send, Notify, Goto
  <2> QED
    BY <2>1, <2>2
<1> QED
  BY <1>1, <1>2, SameQueue

\* In program order the event is in its slot before in_prod says so.
LEMMA StoreInOrder ==
  ASSUME IInv, ~Reorder, NEW s \in Senders, StoreVisible(s)
  PROVE  /\ UNCHANGED <<inCons, copied, pc>>
         /\ inProd \in Index /\ event[s] \in 1..MaxEvents /\ Held < NumEvents
         /\ \/ /\ mEventBuffer' = [mEventBuffer EXCEPT ![inProd % NumEvents] = event[s]]
               /\ inProd' = inProd
            \/ /\ inProd' = After(inProd) /\ mEventBuffer' = mEventBuffer
               /\ mEventBuffer[inProd % NumEvents] = event[s] /\ stores'[s] = << >>
<1> PICK i \in DOMAIN stores[s] :
      /\ stores[s][i].to = "buffer" =>
           /\ mEventBuffer' = [mEventBuffer EXCEPT ![stores[s][i].at] = stores[s][i].value]
           /\ inProd' = inProd
      /\ stores[s][i].to # "buffer" =>
           inProd' = stores[s][i].value /\ mEventBuffer' = mEventBuffer
      /\ stores' = [stores EXCEPT ![s] = RemoveAt(stores[s], i)]
      /\ i = 1
  BY DEF StoreVisible
<1>1. UNCHANGED <<inCons, copied, pc>>
  BY DEF StoreVisible
<1>2. /\ pc[s] = "wmb" /\ event[s] \in 1..MaxEvents /\ inProd \in Index /\ stores[s] # << >>
  BY DEF IInv, StoreInv, LockInv, BaseInv
<1>3. \/ stores[s] = <<BufferStore(inProd, event[s]), ProdStore(inProd)>> /\ Held < NumEvents
      \/ /\ stores[s] = <<ProdStore(inProd)>> /\ Held < NumEvents
         /\ mEventBuffer[inProd % NumEvents] = event[s]
  BY <1>2 DEF IInv, StoreInv
<1>4. CASE stores[s] = <<BufferStore(inProd, event[s]), ProdStore(inProd)>> /\ Held < NumEvents
  <2>1. stores[s][i] = BufferStore(inProd, event[s])
    BY <1>4
  <2>2. /\ stores[s][i].to = "buffer" /\ stores[s][i].at = inProd % NumEvents
        /\ stores[s][i].value = event[s]
    BY <2>1, StoreFields
  <2> QED
    BY <1>1, <1>2, <1>4, <2>2
<1>5. CASE /\ stores[s] = <<ProdStore(inProd)>> /\ Held < NumEvents
           /\ mEventBuffer[inProd % NumEvents] = event[s]
  <2>1. stores[s][i] = ProdStore(inProd)
    BY <1>5
  <2>2. stores[s][i].to # "buffer" /\ stores[s][i].value = After(inProd)
    BY <2>1, StoreFields
  <2>3. stores'[s] = << >>
    <3>1. RemoveAt(stores[s], i) = << >>
      BY <1>5, Removed
    <3>2. stores \in [Senders -> Seq(Store)]
      BY DEF IInv, BaseInv
    <3> QED
      BY <3>1, <3>2
  <2> QED
    BY <1>1, <1>2, <1>5, <2>2, <2>3
<1> QED
  BY <1>3, <1>4, <1>5

\* An event is sent when in_prod becomes visible; the store to the buffer before it
\* fills a slot that the frontend does not look at.
LEMMA StoreSends ==
  ASSUME IInv, IInv', Divides, ~Reorder, NEW s \in Senders, StoreVisible(s)
  PROVE  /\ event[s] \in 1..MaxEvents
         /\ \/ EventsArrive!Send(event[s]) /\ stores'[s] = << >>
            \/ UNCHANGED EventsArrive!vars
<1> DEFINE b == mEventBuffer
           i == Unread
           n == Waiting
           e == event[s]
<1>1. /\ UNCHANGED <<inCons, copied, pc>>
      /\ inProd \in Index /\ e \in 1..MaxEvents /\ Held < NumEvents
      /\ \/ b' = [b EXCEPT ![inProd % NumEvents] = e] /\ inProd' = inProd
         \/ /\ inProd' = After(inProd) /\ b' = b /\ b[inProd % NumEvents] = e
            /\ stores'[s] = << >>
  BY StoreInOrder
<1>2. /\ Queue = QueueOf(b, i, n) /\ b \in Buffer /\ i \in Int /\ n \in Nat /\ n <= Held
      /\ Held \in Nat /\ (i + n) % NumEvents = inProd % NumEvents
  BY QueueIs
<1>3. Queue' = QueueOf(b', i', n')
  <2>1. (Queue = QueueOf(b, i, n))'
    BY QueueIs, PTL
  <2> QED
    BY <2>1
<1>4. i' = i
  BY <1>1 DEF Unread
<1>5. CASE b' = [b EXCEPT ![inProd % NumEvents] = e] /\ inProd' = inProd
  <2>1. n' = n
    BY <1>1, <1>5 DEF Waiting, Held
  <2>2. ASSUME NEW k \in 1..n
        PROVE  b'[(i + (k - 1)) % NumEvents] = b[(i + (k - 1)) % NumEvents]
    <3>1. i + (k - 1) \in Int /\ i + n \in Int /\ i + (k - 1) < i + n
          /\ (i + n) - (i + (k - 1)) < NumEvents
      <4>1. i \in Int /\ n \in Nat /\ n < NumEvents /\ NumEvents \in Nat
        BY <1>1, <1>2, Bounds
      <4> QED
        BY <4>1
    <3>2. (i + (k - 1)) % NumEvents # (i + n) % NumEvents
      BY <3>1, SlotsDiffer
    <3>3. (i + (k - 1)) % NumEvents \in 0..NumEvents - 1
      BY <3>1, SlotIn
    <3> QED
      BY <1>2, <1>5, <3>2, <3>3 DEF Buffer
  <2>3. QueueOf(b', i, n) = QueueOf(b, i, n)
    BY <2>2, QueueSame
  <2>4. Queue' = Queue
    BY <1>2, <1>3, <1>4, <2>1, <2>3
  <2> QED
    BY <1>1, <2>4 DEF EventsArrive!vars
<1>6. CASE /\ inProd' = After(inProd) /\ b' = b /\ b[inProd % NumEvents] = e
           /\ stores'[s] = << >>
  <2>1. n' = n + 1
    <3>1. Held' = Held + 1
      BY <1>1, <1>2, <1>6, GapAfterTo, Bounds DEF Held, IInv, BaseInv
    <3> QED
      BY <1>1, <1>2, <3>1 DEF Waiting
  <2>2. Queue' = Append(Queue, e)
    <3>1. QueueOf(b, i, n + 1) = Append(QueueOf(b, i, n), b[(i + n) % NumEvents])
      BY <1>2, QueueAppend
    <3> QED
      BY <1>2, <1>3, <1>4, <1>6, <2>1, <3>1
  <2>3. Len(Queue) < NumEvents
    <3>1. Len(Queue) = n
      BY <1>2, QueueSeq
    <3> QED
      BY <1>1, <1>2, <3>1, Bounds
  <2>4. EventsArrive!Send(e)
    BY <1>1, <2>2, <2>3 DEF EventsArrive!Send
  <2> QED
    BY <1>1, <1>6, <2>4
<1> QED
  BY <1>1, <1>5, <1>6

\* The frontend receives when it copies; giving the place away shows nothing.
LEMMA FrontendReceives ==
  ASSUME IInv, IInv', Divides, Frontend
  PROVE  EventsArrive!Receive \/ UNCHANGED EventsArrive!vars
<1> DEFINE b == mEventBuffer
           i == Unread
           n == Waiting
<1>1. /\ UNCHANGED <<inProd, mEventBuffer>>
      /\ \A l : [pc EXCEPT !["frontend"] = l]["frontend"] = l
      /\ inProd \in Index /\ inCons \in Index
  <2>1. UNCHANGED <<inProd, mEventBuffer>>
    BY DEF Frontend, Woken, CopyEvent, Advance, page
  <2> QED
    BY <2>1 DEF IInv, BaseInv
<1>2. /\ Queue = QueueOf(b, i, n) /\ b \in Buffer /\ i \in Int /\ n \in Nat /\ n <= Held
      /\ Held \in Nat
  BY QueueIs
<1>3. Queue' = QueueOf(b', i', n')
  <2>1. (Queue = QueueOf(b, i, n))'
    BY QueueIs, PTL
  <2> QED
    BY <2>1
<1>4. CASE Woken
  BY <1>1, <1>4, SameQueue DEF Woken, Goto, page
<1>5. CASE CopyEvent
  <2>1. pc["frontend"] = "read" /\ inCons' = inCons
    BY <1>5 DEF CopyEvent, page
  <2>2. CASE inProd = inCons /\ pc' = [pc EXCEPT !["frontend"] = "wait"] /\ UNCHANGED copied
    BY <1>1, <2>1, <2>2, SameQueue
  <2>3. CASE /\ inProd # inCons /\ pc' = [pc EXCEPT !["frontend"] = "advance"]
             /\ copied' = mEventBuffer[inCons % NumEvents]
    <3>1. pc'["frontend"] = "advance" /\ Held # 0 /\ Held' = Held
      BY <1>1, <2>1, <2>3, GapZero DEF Held
    <3>2. i = inCons /\ i' = i + 1 /\ n = Held /\ n' = n - 1 /\ n \in Nat \ {0}
      BY <1>2, <2>1, <3>1 DEF Unread, Waiting
    <3>3. /\ Queue # << >> /\ Head(Queue) = b[i % NumEvents]
          /\ QueueOf(b, i + 1, n - 1) = Tail(Queue)
      BY <1>2, <3>2, QueueTail
    <3>4. Queue' = Tail(Queue)
      BY <1>1, <1>3, <3>2, <3>3
    <3> QED
      BY <2>3, <3>2, <3>3, <3>4 DEF EventsArrive!Receive
  <2> QED
    BY <1>5, <2>2, <2>3 DEF CopyEvent, Goto
<1>6. CASE Advance
  <2>1. /\ pc["frontend"] = "advance" /\ pc'["frontend"] = "read" /\ UNCHANGED copied
        /\ inCons' = After(inCons) /\ inProd # inCons
    BY <1>1, <1>6 DEF Advance, Goto, After, IInv, HeldInv
  <2>2. Held' = Held - 1
    BY <1>1, <2>1, GapAfterFrom DEF Held
  <2>3. n' = n /\ i = inCons + 1 /\ i' = After(inCons)
    BY <2>1, <2>2 DEF Unread, Waiting
  <2>4. i' % NumEvents = i % NumEvents /\ i' \in Int
    <3>1. inCons + 1 \in Int
      BY <1>1, IndexInt
    <3>2. After(inCons) \in Int
      BY <1>1, AfterCases, IndexInt
    <3> QED
      BY <2>3, <3>1, <3>2, SlotOfMod DEF After
  <2>5. ASSUME NEW k \in 1..n
        PROVE  b'[(i' + (k - 1)) % NumEvents] = b[(i + (k - 1)) % NumEvents]
    <3>1. k - 1 \in Int
      BY <1>2
    <3>2. (i' + (k - 1)) % NumEvents = (i + (k - 1)) % NumEvents
      BY <1>2, <2>4, <3>1, SlotShift
    <3> QED
      BY <1>1, <3>2
  <2>6. Queue' = Queue
    BY <1>2, <1>3, <2>3, <2>5, QueueSame
  <2> QED
    BY <2>1, <2>6 DEF EventsArrive!vars
<1> QED
  BY <1>4, <1>5, <1>6 DEF Frontend

\* Every step is one of the queue or shows nothing there.
LEMMA StepsMap ==
  ASSUME ~Reorder, Divides, IInv, IInv', [Next]_vars
  PROVE  [EventsArrive!Next]_EventsArrive!vars
<1>1. CASE \E s \in Senders : Call(s) \/ SendEvent(s)
  <2> PICK s \in Senders : Call(s) \/ SendEvent(s)
    BY <1>1
  <2>1. CASE StoreVisible(s)
    BY <2>1, StoreSends DEF EventsArrive!Next
  <2>2. CASE Call(s) \/ Lock(s) \/ CheckOverflow(s) \/ Notify(s)
    BY <2>2, SenderStutters
  <2> QED
    BY <2>1, <2>2 DEF SendEvent
<1>2. CASE Frontend
  BY <1>2, FrontendReceives DEF EventsArrive!Next
<1>3. CASE UNCHANGED vars
  <2>1. UNCHANGED <<inProd, inCons, mEventBuffer, copied, pc>>
    BY <1>3 DEF vars, page
  <2> QED
    BY <2>1, SameQueue
<1> QED
  BY <1>1, <1>2, <1>3 DEF Next

\* On a machine that makes stores visible in program order, with a number of events
\* that divides the index range, the page is the bounded queue: an event that the
\* frontend can see is complete, is not overwritten before it is received, and all
\* are received in the order they were sent, whatever the number of senders.
THEOREM QueueSafety ==
  ASSUME ~Reorder, IndexMod % NumEvents = 0
  PROVE  Spec => EventsArrive!Safety
<1>1. Divides
  BY DEF Divides
<1>2. Init => EventsArrive!Init
  BY InitQueue
<1>3. IInv /\ IInv' /\ [Next]_vars => [EventsArrive!Next]_EventsArrive!vars
  BY <1>1, StepsMap
<1> QED
  BY <1>2, <1>3, Invariance, PTL DEF Spec, EventsArrive!Safety

-----------------------------------------------------------------------------
(* Order, of the events of one sender *)

\* A queue q of later and later events, all after event c
Rising(q, c) == /\ \A k \in 1..Len(q) : c < q[k]
                /\ \A j, k \in 1..Len(q) : j < k => q[j] < q[k]
\* None as late as event m
Below(q, c, m) == c < m /\ \A k \in 1..Len(q) : q[k] < m

\* The frontend receives an event later than the last, and leaves later ones.
LEMMA RisingTail ==
  ASSUME NEW q \in Seq(0..MaxEvents), NEW c \in 0..MaxEvents, q # << >>, Rising(q, c)
  PROVE  /\ c < Head(q) /\ Head(q) \in 0..MaxEvents /\ Rising(Tail(q), Head(q))
         /\ \A m : Below(q, c, m) => Below(Tail(q), Head(q), m)
<1>1. /\ Len(q) \in Nat /\ Len(q) >= 1 /\ Head(q) = q[1]
      /\ \A k \in 1..Len(q) : q[k] \in 0..MaxEvents
  <2>1. Len(q) \in Nat /\ Len(q) # 0
    BY EmptySeq
  <2>2. \A k \in 1..Len(q) : q[k] \in 0..MaxEvents
    BY ElementOfSeq
  <2> QED
    BY <2>1, <2>2
<1>2. /\ Tail(q) \in Seq(0..MaxEvents) /\ Len(Tail(q)) = Len(q) - 1
      /\ \A k \in 1..Len(q) - 1 : Tail(q)[k] = q[k + 1]
  BY HeadTailProperties
<1>3. \A k \in 1..Len(q) - 1 : k + 1 \in 1..Len(q) /\ 1 < k + 1
  BY <1>1
<1>4. Rising(Tail(q), Head(q))
  <2>1. ASSUME NEW k \in 1..Len(q) - 1
        PROVE  Head(q) < Tail(q)[k]
    BY <1>1, <1>2, <1>3 DEF Rising
  <2>2. ASSUME NEW j \in 1..Len(q) - 1, NEW k \in 1..Len(q) - 1, j < k
        PROVE  Tail(q)[j] < Tail(q)[k]
    <3>1. j + 1 < k + 1
      BY <1>1, <2>2
    <3> QED
      BY <1>2, <1>3, <3>1 DEF Rising
  <2> QED
    BY <1>2, <2>1, <2>2 DEF Rising
<1>5. ASSUME NEW m, Below(q, c, m)
      PROVE  Below(Tail(q), Head(q), m)
  BY <1>1, <1>2, <1>3, <1>5 DEF Below
<1>6. c < Head(q) /\ Head(q) \in 0..MaxEvents
  BY <1>1 DEF Rising
<1> QED
  BY <1>4, <1>5, <1>6

\* A still later event keeps the queue rising.
LEMMA RisingAppend ==
  ASSUME NEW q \in Seq(0..MaxEvents), NEW c \in 0..MaxEvents, NEW e \in 0..MaxEvents,
         Rising(q, c), Below(q, c, e)
  PROVE  /\ Rising(Append(q, e), c)
         /\ \A m : e < m /\ Below(q, c, m) => Below(Append(q, e), c, m)
<1> DEFINE v == Append(q, e)
<1>1. /\ Len(q) \in Nat /\ Len(v) = Len(q) + 1 /\ v[Len(q) + 1] = e
      /\ \A k \in 1..Len(q) : v[k] = q[k]
  BY AppendProperties
<1> HIDE DEF v
<1>2. \A k \in 1..Len(v) : k \in 1..Len(q) \/ k = Len(v)
  BY <1>1
<1>3. ASSUME NEW k \in 1..Len(v)
      PROVE  c < v[k]
  BY <1>1, <1>2 DEF Rising, Below
<1>4. ASSUME NEW j \in 1..Len(v), NEW k \in 1..Len(v), j < k
      PROVE  v[j] < v[k]
  <2>1. j \in 1..Len(q)
    BY <1>1, <1>4
  <2>2. CASE k \in 1..Len(q)
    BY <1>1, <1>4, <2>1, <2>2 DEF Rising
  <2>3. CASE k = Len(v)
    BY <1>1, <2>1, <2>3 DEF Below
  <2> QED
    BY <1>2, <2>2, <2>3
<1>5. ASSUME NEW m, e < m, Below(q, c, m)
      PROVE  Below(v, c, m)
  BY <1>1, <1>2, <1>5 DEF Below
<1>6. Rising(v, c)
  BY <1>3, <1>4 DEF Rising
<1> QED
  BY <1>5, <1>6 DEF v

\* s has an event that is not in the queue yet.
Unsent(s) == pc[s] \in {"lock", "check"} \/ stores[s] # << >>

OrderInv ==
  /\ Rising(Queue, copied)
  /\ Below(Queue, copied, calls + 1)
  /\ \A s \in Senders : /\ event[s] <= calls
                        /\ Unsent(s) => Below(Queue, copied, event[s])

\* The queue is a sequence of events.
LEMMA QueueTyped ==
  ASSUME IInv, Divides
  PROVE  Queue \in Seq(0..MaxEvents) /\ copied \in 0..MaxEvents
  BY QueueIs, QueueSeq DEF IInv, BaseInv

\* Nothing is sent, nothing received.
LEMMA InitOrder ==
  ASSUME Init
  PROVE  OrderInv
<1>1. Queue = << >> /\ copied = 0 /\ calls = 0
  BY InitQueue DEF EventsArrive!Init, Init
<1>2. Rising(<< >>, 0) /\ Below(<< >>, 0, 1)
  BY DEF Rising, Below
<1>3. \A s \in Senders : event[s] <= calls /\ ~Unsent(s)
  BY EventAssumption DEF Init, Unsent
<1> QED
  BY <1>1, <1>2, <1>3 DEF OrderInv

\* One sender's next event is later than all it has sent.
LEMMA OrderStep ==
  ASSUME IInv, IInv', Divides, ~Reorder, OrderInv, [Next]_vars,
         NEW t, Senders = {t}
  PROVE  OrderInv' /\ (copied' # copied => copied' > copied)
<1>1. /\ Queue \in Seq(0..MaxEvents) /\ copied \in 0..MaxEvents /\ t \in Senders
      /\ calls \in 0..MaxEvents /\ event[t] \in 0..MaxEvents
  BY QueueTyped DEF IInv, BaseInv
<1>2. CASE Call(t)
  <2>1. UNCHANGED <<Queue, copied>> /\ calls' = calls + 1 /\ event'[t] = calls + 1
    BY <1>2, SenderStutters DEF EventsArrive!vars, Call, IInv, BaseInv
  <2>2. Below(Queue, copied, (calls + 1) + 1)
    BY <1>1, Bounds DEF OrderInv, Below
  <2> QED
    BY <1>1, <2>1, <2>2 DEF OrderInv
<1>3. CASE Lock(t) \/ CheckOverflow(t) \/ Notify(t)
  <2>1. UNCHANGED <<Queue, copied, calls, event>>
    BY <1>3, SenderStutters DEF EventsArrive!vars, Lock, CheckOverflow, Send, Notify
  <2>2. Unsent(t)' => Unsent(t)
    <3>1. CASE Lock(t) \/ CheckOverflow(t)
      BY <3>1 DEF Lock, CheckOverflow, Send, Unsent
    <3>2. CASE Notify(t)
      BY <1>1, <3>2 DEF Notify, Unsent, Goto, IInv, BaseInv
    <3> QED
      BY <1>3, <3>1, <3>2
  <2> QED
    BY <1>1, <2>1, <2>2 DEF OrderInv
<1>4. CASE StoreVisible(t)
  <2>1. /\ UNCHANGED <<copied, calls, event, pc>> /\ pc[t] = "wmb" /\ Unsent(t)
    BY <1>1, <1>4 DEF StoreVisible, page, Unsent, IInv, StoreInv, BaseInv
  <2>2. Rising(Queue, copied) /\ Below(Queue, copied, event[t]) /\ event[t] <= calls
        /\ Below(Queue, copied, calls + 1)
    BY <1>1, <2>1 DEF OrderInv
  <2>3. CASE EventsArrive!Send(event[t]) /\ stores'[t] = << >>
    <3>1. Queue' = Append(Queue, event[t])
      BY <2>3 DEF EventsArrive!Send
    <3>2. Rising(Queue', copied) /\ Below(Queue', copied, calls + 1)
      <4>1. event[t] < calls + 1
        BY <1>1, <2>2
      <4> QED
        BY <1>1, <2>2, <3>1, <4>1, RisingAppend
    <3>3. ~Unsent(t)'
      BY <2>1, <2>3 DEF Unsent
    <3> QED
      BY <1>1, <2>1, <2>2, <3>2, <3>3 DEF OrderInv
  <2>4. CASE UNCHANGED EventsArrive!vars
    BY <1>1, <2>1, <2>2, <2>4 DEF OrderInv, EventsArrive!vars
  <2> QED
    BY <1>1, <1>4, <2>3, <2>4, StoreSends
<1>5. CASE Frontend
  <2>1. UNCHANGED <<calls, event>> /\ (Unsent(t)' <=> Unsent(t))
    <3>1. UNCHANGED <<calls, event, stores>> /\ \E l : pc' = [pc EXCEPT !["frontend"] = l]
      BY <1>5 DEF Frontend, Woken, CopyEvent, Advance, page, Goto
    <3>2. pc'[t] = pc[t]
      BY <1>1, <3>1, EventAssumption DEF IInv, BaseInv
    <3> QED
      BY <3>1, <3>2 DEF Unsent
  <2>2. CASE EventsArrive!Receive
    <3>1. Queue # << >> /\ copied' = Head(Queue) /\ Queue' = Tail(Queue)
      BY <2>2 DEF EventsArrive!Receive
    <3>2. /\ copied < copied' /\ copied' \in 0..MaxEvents /\ Rising(Queue', copied')
          /\ \A m : Below(Queue, copied, m) => Below(Queue', copied', m)
      BY <1>1, <3>1, RisingTail DEF OrderInv
    <3> QED
      BY <1>1, <2>1, <3>2 DEF OrderInv
  <2>3. CASE UNCHANGED EventsArrive!vars
    BY <1>1, <2>1, <2>3 DEF OrderInv, EventsArrive!vars
  <2> QED
    BY <1>5, <2>2, <2>3, FrontendReceives
<1>6. CASE UNCHANGED vars
  <2>1. UNCHANGED <<inProd, inCons, mEventBuffer, stores, calls, event, copied, pc>>
    BY <1>6 DEF vars, page
  <2>2. UNCHANGED <<Queue, copied>>
    BY <2>1, SameQueue DEF EventsArrive!vars
  <2> QED
    BY <1>1, <2>1, <2>2 DEF OrderInv, Unsent
<1> QED
  BY <1>2, <1>3, <1>4, <1>5, <1>6 DEF Next, SendEvent

\* What the test "RingBufferOut" expects of its one sender, NoStaleEvent, holds where
\* stores become visible in program order: Reorder is what ring_out_reorder needs to
\* violate it.
THEOREM OneSenderInOrder ==
  ASSUME ~Reorder, IndexMod % NumEvents = 0, NEW CONSTANT t, Senders = {t}
  PROVE  Spec => NoStaleEvent
<1>1. Divides
  BY DEF Divides
<1>2. Init => OrderInv
  BY InitOrder
<1>3. IInv /\ IInv' /\ OrderInv /\ [Next]_vars
      => OrderInv' /\ [copied' # copied => copied' > copied]_vars
  BY <1>1, OrderStep
<1> QED
  BY <1>2, <1>3, Invariance, PTL DEF Spec, NoStaleEvent
=============================================================================
