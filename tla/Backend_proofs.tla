---------------------------- MODULE Backend_proofs ----------------------------
(***************************************************************************)
(* Proofs about Backend: the types, that what the lists hold is watched,   *)
(* that the watch thread survives, that no handler is deleted whose device *)
(* is there as it was, and that each step stop() waits for is towards its  *)
(* end.                                                                    *)
(*                                                                         *)
(* The five rest on one inductive invariant.  Where the watch thread is    *)
(* says what its locals are paths of (PathInv); with it a watch set or     *)
(* cleared is of a domain or of a device, and the lists follow the watches *)
(* (ListInv).  How far stop() has come says whether there is a byte in the *)
(* pipe and whether the thread runs (ThreadInv).  A handler's generation   *)
(* is never ahead of its device's, and behind it once the node was seen    *)
(* missing and came back, unless checkIfExist() misread it (GenInv).       *)
(***************************************************************************)
EXTENDS Backend, TLAPS, FiniteSetTheorems

OwnerPc == {"new", "watch", "up", "signal", "join", "down", "gone"}
WatchPc == {"dead", "poll", "read", "domains", "eachDomain", "devices", "forget",
            "readDevices", "eachDevice", "construct", "add", "start",
            "frontend", "unwatch", "delete"}

\* TypeOK, but for what it says of the pipe; the watches are finitely many,
\* and so a change of the store fires finitely many.
TypeInv ==
  /\ nodes \subseteq Domains \union Devices
  /\ gen \in [Devices -> Nat]
  /\ mWatches \subseteq Path /\ IsFiniteSet(mWatches)
  /\ mStarted \in BOOLEAN /\ pipe \in Nat
  /\ mDomainList \subseteq Domains
  /\ mFrontendHandlers \subseteq [dev : Devices, gen : Nat]
  /\ ownerPc \in OwnerPc
  /\ watchPc \in WatchPc
  /\ path \in Path /\ todo \subseteq Path /\ new \in [dev : Devices, gen : Nat]
  /\ changes \in 0 .. MaxChanges /\ starts \in 0 .. MaxStarts
  /\ interrupts \in 0 .. MaxInterrupts /\ faults \in 0 .. MaxFaults
  /\ misread \in BOOLEAN

\* A token is pending once.
EventInv == events \in Seq(Path) /\ IsInjective(events)

\* What the locals of the watch thread are paths of.
PathInv ==
  /\ watchPc = "domains" => path = Root
  /\ watchPc = "eachDomain" => todo \subseteq Domains
  /\ watchPc \in {"devices", "forget", "readDevices"} => path \in Domains
  /\ watchPc \in {"eachDevice", "construct", "add", "start"} => todo \subseteq Devices
  /\ watchPc \in {"frontend", "unwatch", "delete"} => path \in Devices

\* Until the first stop(), a domain is listed when it is watched, and a
\* frontend that has a handler, or is about to have one, is watched; not so one
\* whose handler is being deleted, or failed to stop and ended the watch thread.
Fresh == ownerPc \in {"new", "watch", "up"} /\ starts <= 1
ListInv ==
  /\ mWatches \intersect Domains \subseteq mDomainList
  /\ Fresh => /\ mDomainList \subseteq mWatches
              /\ Served \subseteq mWatches
                             \union (IF watchPc \in {"delete", "dead"} THEN {path} ELSE {})
              /\ watchPc = "start" => new.dev \in mWatches
  /\ ownerPc = "new" => starts = 0 /\ mDomainList = {} /\ mFrontendHandlers = {}
  /\ ownerPc \in {"watch", "up", "signal", "join", "down"} => starts >= 1

\* A byte is written by each stop(), and read by the thread that it stops.
ThreadInv ==
  /\ pipe + (IF ownerPc \in {"watch", "up", "signal"} THEN 1 ELSE 0) <= starts
  /\ ownerPc \in {"new", "down", "gone"} => watchPc = "dead"
  /\ ownerPc = "join" => watchPc = "dead" \/ pipe > 0
  /\ faults = 0 =>
       /\ ownerPc # "join" => pipe = 0
       /\ ownerPc = "join" => pipe = (IF watchPc = "dead" THEN 0 ELSE 1)
       /\ ownerPc \in {"watch", "up", "signal"} => watchPc # "dead"

\* Generations.
GenInv ==
  /\ \A dev \in Devices : gen[dev] <= changes
  /\ \A h \in mFrontendHandlers : h.gen <= gen[h.dev]
  /\ new.gen <= gen[new.dev]
  /\ watchPc \in {"unwatch", "delete"} =>
       \/ misread
       \/ path \notin nodes
       \/ \A h \in mFrontendHandlers : h.dev = path => h.gen < gen[path]

IInv == TypeInv /\ EventInv /\ PathInv /\ ListInv /\ ThreadInv /\ GenInv
-----------------------------------------------------------------------------
(* Paths and events *)

\* A path of one element is a domain's, of two a device's.
LEMMA Lengths ==
  /\ Len(Root) = 0
  /\ \A dom \in Domains : Len(dom) = 1
  /\ \A dev \in Devices : Len(dev) = 2 /\ <<dev[1]>> \in Domains
  <1>1. \A dev \in Devices : Len(dev) = 2
    <2> TAKE dev \in Devices
    <2>1. dev = <<dev[1], dev[2]>>
      BY BackendAssumption
    <2>2. Len(<<dev[1], dev[2]>>) = 2
      OBVIOUS
    <2> QED
      BY <2>1, <2>2
  <1> QED
    BY <1>1 DEF Root, Domains

\* The three kinds of path are distinct.
LEMMA Kinds ==
  /\ Root \notin Domains /\ Root \notin Devices
  /\ \A dom \in Domains : dom \notin Devices
  <1>1. \A dom \in Domains : dom \notin Devices
    <2> SUFFICES ASSUME NEW p \in Domains, p \in Devices
                 PROVE  FALSE
      OBVIOUS
    <2>1. Len(p) = 1 /\ Len(p) = 2
      BY Lengths
    <2> QED
      BY <2>1
  <1>2. Root \notin Domains /\ Root \notin Devices
    <2>1. Root \in Domains => Len(Root) = 1
      BY Lengths
    <2>2. Root \in Devices => Len(Root) = 2
      BY Lengths
    <2>3. Len(Root) = 0
      BY Lengths
    <2> QED
      BY <2>1, <2>2, <2>3
  <1> QED
    BY <1>1, <1>2

\* The children of the root are the domains, those of a domain the devices.
LEMMA Children ==
  ASSUME NEW p \in Path, NEW q \in Domains \union Devices, Child(p, q)
  PROVE  /\ p = Root => q \in Domains
         /\ p \in Domains => q \in Devices
  <1>1. Len(q) = Len(p) + 1
    BY DEF Child
  <1>2. p = Root => q \in Domains
    <2> SUFFICES ASSUME p = Root, q \in Devices
                 PROVE  FALSE
      OBVIOUS
    <2>1. Len(p) = 0 /\ Len(q) = 2
      BY Lengths
    <2> QED
      BY <1>1, <2>1
  <1>3. p \in Domains => q \in Devices
    <2> SUFFICES ASSUME p \in Domains, q \in Domains
                 PROVE  FALSE
      OBVIOUS
    <2>1. Len(p) = 1 /\ Len(q) = 1
      BY Lengths
    <2> QED
      BY <1>1, <2>1
  <1> QED
    BY <1>2, <1>3

\* What Fire() appends are tokens of S that are not pending, each once.
LEMMA Fires ==
  ASSUME EventInv, NEW S, S \subseteq Path, IsFiniteSet(S), Fire(S)
  PROVE  EventInv'
  <1> DEFINE T == S \ ToSet(events)
             n == Cardinality(T)
  <1>1. PICK fired \in SetToSeqs(T) : events' = events \o fired
    BY DEF Fire
  <1>2. n \in Nat
    BY FS_Difference, FS_CardinalityType
  <1>3. /\ fired \in [1 .. n -> T]
        /\ \A i, j \in 1 .. n : i # j => fired[i] # fired[j]
    BY DEF SetToSeqs
  <1>4. fired \in Seq(Path) /\ Len(fired) = n
    <2> HIDE DEF n
    <2>1. fired \in [1 .. n -> Path]
      BY <1>3
    <2> QED
      BY <1>2, <2>1
  <1>5. \A i \in 1 .. n : \A j \in 1 .. Len(events) : fired[i] # events[j]
    BY <1>3 DEF ToSet
  <1>6. events \in Seq(Path)
    BY DEF EventInv
  <1>7. events' \in Seq(Path) /\ Len(events') = Len(events) + n
    <2> HIDE DEF n
    <2>1. events \o fired \in Seq(Path) /\ Len(events \o fired) = Len(events) + n
      BY <1>2, <1>4, <1>6
    <2> QED
      BY <1>1, <2>1
  <1>8. ASSUME NEW i \in 1 .. Len(events'), NEW j \in 1 .. Len(events'), i # j
        PROVE  events'[i] # events'[j]
    <2> HIDE DEF T, n
    <2>1. \A k \in 1 .. Len(events) : events'[k] = events[k]
      BY <1>1, <1>2, <1>4, <1>6
    <2>2. ASSUME NEW k \in 1 .. Len(events'), k > Len(events)
          PROVE  k - Len(events) \in 1 .. n /\ events'[k] = fired[k - Len(events)]
      BY <1>1, <1>2, <1>4, <1>6, <1>7, <2>2
    <2>3. \A k, l \in 1 .. Len(events) : k # l => events[k] # events[l]
      BY <1>6 DEF EventInv, IsInjective
    <2>4. Len(events) \in Nat /\ i \in Nat /\ j \in Nat
      BY <1>2, <1>6, <1>7
    <2>5. CASE i <= Len(events) /\ j <= Len(events)
      BY <1>8, <2>1, <2>3, <2>4, <2>5
    <2>6. CASE i <= Len(events) /\ j > Len(events)
      BY <1>5, <2>1, <2>2, <2>4, <2>6
    <2>7. CASE i > Len(events) /\ j <= Len(events)
      BY <1>5, <2>1, <2>2, <2>4, <2>7
    <2>8. CASE i > Len(events) /\ j > Len(events)
      BY <1>3, <1>8, <2>2, <2>4, <2>8
    <2> QED
      BY <2>4, <2>5, <2>6, <2>7, <2>8
  <1>9. DOMAIN events' = 1 .. Len(events')
    BY <1>7
  <1> QED
    BY <1>7, <1>8, <1>9 DEF EventInv, IsInjective

\* The token read leaves the rest pending, each once.
LEMMA Reads ==
  ASSUME EventInv, events # <<>>, events' = Tail(events)
  PROVE  EventInv' /\ Head(events) \in Path
  BY DEF EventInv, IsInjective

\* A handler's write of its node keeps EventInv.
LEMMA HandlerFires ==
  ASSUME TypeInv, EventInv, NEW dev \in Devices, HandlerWrites(dev)
  PROVE  EventInv'
  <1>1. /\ WatchesAbove(dev) \subseteq Path
        /\ IsFiniteSet(WatchesAbove(dev))
    BY FS_Subset DEF WatchesAbove, TypeInv
  <1>2. CASE Fire(WatchesAbove(dev))
    BY <1>1, <1>2, Fires
  <1>3. CASE UNCHANGED events
    BY <1>3 DEF EventInv
  <1> QED
    BY <1>2, <1>3 DEF HandlerWrites

\* So does a watch that is set, which fires once.
LEMMA WatchFires ==
  ASSUME EventInv, NEW p \in Path, SetWatch(p)
  PROVE  EventInv'
  BY Fires, FS_Singleton DEF SetWatch

\* A failure is one of MaxFaults, and of the bounds it changes nothing else but
\* misread.
LEMMA Faults ==
  ASSUME TypeInv, Fault \/ Misread \/ UNCHANGED bounds
  PROVE  /\ faults' \in 0 .. MaxFaults
         /\ faults' \in {faults, faults + 1}
         /\ misread' \in BOOLEAN
         /\ changes' = changes /\ starts' = starts /\ interrupts' = interrupts
         /\ ~Misread => misread' = misread
         /\ UNCHANGED bounds \/ faults' # 0
  <1>1. \/ faults < MaxFaults /\ faults' = faults + 1
        \/ faults' = faults
    BY DEF Fault, Misread, CountFault, bounds
  <1>2. faults' \in 0 .. MaxFaults
    BY <1>1, BackendAssumption DEF TypeInv
  <1>3. misread' \in {misread, TRUE} /\ misread \in BOOLEAN
    BY DEF Fault, Misread, CountFault, bounds, TypeInv
  <1>4. misread' \in BOOLEAN
    BY <1>3
  <1>5. changes' = changes /\ starts' = starts /\ interrupts' = interrupts
    BY DEF Fault, Misread, CountFault, bounds
  <1>6. ~Misread => misread' = misread
    BY DEF Fault, bounds
  <1>7. UNCHANGED bounds \/ faults' # 0
    BY <1>2, BackendAssumption DEF Fault, Misread, CountFault, TypeInv
  <1> QED
    BY <1>1, <1>2, <1>4, <1>5, <1>6, <1>7

-----------------------------------------------------------------------------
(* The invariant *)

\* The owner preserves the invariant.
LEMMA OwnerInv ==
  ASSUME IInv, Start \/ ClearWatches \/ Destroy \/ Owner
  PROVE  IInv'
  <1> USE BackendAssumption DEF IInv
  <1>1. CASE Start
    <2>1. TypeInv'
      BY <1>1 DEF Start, Goto, TypeInv, OwnerPc, WatchPc, xenstore, lists, locals
    <2>2. EventInv' /\ PathInv' /\ GenInv'
      BY <1>1 DEF Start, Goto, EventInv, PathInv, GenInv, xenstore, lists, locals
    <2>3. ListInv'
      BY <1>1 DEF Start, Goto, TypeInv, ListInv, Fresh, Served, lists, locals
    <2>4. ThreadInv'
      BY <1>1 DEF Start, Goto, TypeInv, ThreadInv, ListInv
    <2> QED
      BY <2>1, <2>2, <2>3, <2>4
  <1>2. CASE WatchFrontendsPath
    <2>1. TypeInv'
      <3>1. IsFiniteSet(mWatches')
        <4>1. mWatches' \in {mWatches, mWatches \union {Root}}
          BY <1>2 DEF WatchFrontendsPath, SetWatch, SetWatchThrows
        <4>2. IsFiniteSet(mWatches)
          BY DEF TypeInv
        <4> QED
          BY <4>1, <4>2, FS_AddElement
      <3> QED
        BY <1>2, <3>1 DEF WatchFrontendsPath, SetWatch, SetWatchThrows, Fault, CountFault,
           TypeInv, OwnerPc, Path, xenstore, lists, locals, thread, bounds
    <2>2. EventInv'
      BY <1>2, WatchFires DEF WatchFrontendsPath, EventInv, Path
    <2>3. PathInv'
      BY <1>2 DEF WatchFrontendsPath, PathInv, locals
    <2>4. ListInv'
      BY <1>2, Kinds DEF WatchFrontendsPath, SetWatch, SetWatchThrows, Fault, CountFault,
         ListInv, Fresh, Served, lists, locals, bounds
    <2>5. ThreadInv'
      BY <1>2 DEF WatchFrontendsPath, SetWatch, SetWatchThrows, Fault, CountFault, ThreadInv,
         TypeInv, thread, bounds
    <2>6. GenInv'
      BY <1>2 DEF WatchFrontendsPath, SetWatch, SetWatchThrows, Fault, CountFault, GenInv,
         xenstore, lists, locals, bounds
    <2> QED
      BY <2>1, <2>2, <2>3, <2>4, <2>5, <2>6
  <1>3. CASE ClearWatches
    <2>1. TypeInv'
      <3>1. IsFiniteSet(mWatches')
        BY <1>3, FS_EmptySet DEF ClearWatches
      <3> QED
        BY <1>3, <3>1 DEF ClearWatches, TypeInv, OwnerPc, xenstore, lists, locals, thread,
           bounds
    <2>2. EventInv'
      BY <1>3 DEF ClearWatches, EventInv
    <2>3. PathInv'
      BY <1>3 DEF ClearWatches, PathInv, locals
    <2>4. ListInv'
      BY <1>3 DEF ClearWatches, ListInv, Fresh, bounds
    <2>5. ThreadInv'
      BY <1>3 DEF ClearWatches, ThreadInv, thread, bounds
    <2>6. GenInv'
      BY <1>3 DEF ClearWatches, GenInv, xenstore, lists, locals, bounds
    <2> QED
      BY <2>1, <2>2, <2>3, <2>4, <2>5, <2>6
  <1>4. CASE Signal
    <2>1. TypeInv'
      BY <1>4 DEF Signal, TypeInv, OwnerPc, xenstore, lists, locals, bounds
    <2>2. EventInv' /\ PathInv'
      BY <1>4 DEF Signal, EventInv, PathInv, locals
    <2>3. ListInv'
      BY <1>4 DEF Signal, ListInv, Fresh, bounds, lists
    <2>4. ThreadInv'
      BY <1>4 DEF Signal, TypeInv, ThreadInv, bounds
    <2>5. GenInv'
      BY <1>4 DEF Signal, GenInv, xenstore, lists, locals, bounds
    <2> QED
      BY <2>1, <2>2, <2>3, <2>4, <2>5
  <1>5. CASE Join
    BY <1>5 DEF Join, TypeInv, EventInv, PathInv, ListInv, ThreadInv, GenInv, OwnerPc,
       Fresh, xenstore, lists, locals, bounds
  <1>6. CASE Destroy
    BY <1>6 DEF Destroy, TypeInv, EventInv, PathInv, ListInv, ThreadInv, GenInv, OwnerPc,
       Fresh, xenstore, locals, thread, bounds
  <1> QED
    BY <1>1, <1>2, <1>3, <1>4, <1>5, <1>6 DEF Owner

\* The watch thread preserves it.
LEMMA WatchInv ==
  ASSUME IInv, Watch
  PROVE  IInv'
  <1> USE BackendAssumption DEF IInv
  <1>1. CASE Terminate
    BY <1>1 DEF Terminate, Goto, TypeInv, EventInv, PathInv, ListInv, ThreadInv, GenInv,
       WatchPc, Path, Fresh, Served, xenstore, lists, locals, bounds
  <1>2. CASE ReadWatch
    <2>1. /\ path' \in Path
          /\ \/ watchPc' = "poll"
             \/ watchPc' = "domains" /\ path' = Root
             \/ watchPc' = "devices" /\ path' \in Domains
             \/ watchPc' = "frontend" /\ path' \in Devices
      BY <1>2, Reads, Kinds DEF ReadWatch, Goto, Path
    <2>2. TypeInv'
      BY <1>2, <2>1 DEF ReadWatch, TypeInv, WatchPc, xenstore, lists, thread, bounds
    <2>3. EventInv'
      BY <1>2, Reads DEF ReadWatch
    <2>4. PathInv'
      BY <1>2, <2>1 DEF PathInv
    <2>5. ListInv'
      BY <1>2, <2>1 DEF ReadWatch, ListInv, Fresh, Served, lists, bounds
    <2>6. ThreadInv'
      BY <1>2, <2>1 DEF ReadWatch, ThreadInv, thread, bounds
    <2>7. GenInv'
      BY <1>2, <2>1 DEF ReadWatch, GenInv, xenstore, lists, bounds
    <2> QED
      BY <2>2, <2>3, <2>4, <2>5, <2>6, <2>7
  <1>3. CASE EndOfDirectory
    BY <1>3 DEF EndOfDirectory, Goto, TypeInv, EventInv, PathInv, ListInv, ThreadInv,
       GenInv, WatchPc, Fresh, Served, xenstore, lists, locals, thread, bounds
  <1>4. CASE DomainListChanged
    <2>1. /\ Fault \/ UNCHANGED bounds
          /\ todo' \subseteq nodes /\ \A p \in todo' : Child(path, p)
          /\ UNCHANGED <<xenstore, events, mWatches, thread, lists, ownerPc, path, new>>
          /\ watchPc = "domains" /\ watchPc' = "eachDomain"
      BY <1>4 DEF DomainListChanged, ReadDirectory, Goto
    <2>2. TypeInv'
      BY <2>1, Faults DEF TypeInv, WatchPc, Path, xenstore, lists, thread
    <2>3. EventInv'
      BY <2>1 DEF EventInv
    <2>4. PathInv'
      BY <2>1, Children DEF PathInv, TypeInv
    <2>5. ListInv'
      BY <2>1, Faults DEF ListInv, Fresh, Served, lists
    <2>6. ThreadInv'
      BY <2>1, Faults DEF ThreadInv, thread, bounds
    <2>7. GenInv'
      BY <2>1, Faults DEF GenInv, xenstore, lists, bounds
    <2> QED
      BY <2>2, <2>3, <2>4, <2>5, <2>6, <2>7
  <1>5. CASE EachDomain
    <2>1. PICK dom \in todo :
            /\ \/ /\ dom \in mDomainList
                  /\ UNCHANGED <<mWatches, mDomainList, bounds>>
                  /\ watchPc' = "eachDomain"
               \/ /\ dom \notin mDomainList
                  /\ mWatches' = mWatches \union {dom}
                  /\ mDomainList' = mDomainList \union {dom}
                  /\ watchPc' = "eachDomain"
                  /\ UNCHANGED bounds
               \/ /\ dom \notin mDomainList
                  /\ faults' = faults + 1
                  /\ watchPc' = "dead"
                  /\ UNCHANGED <<mWatches, mDomainList, changes, starts, interrupts,
                                 misread>>
      <3>1. todo \subseteq Domains /\ mWatches \intersect Domains \subseteq mDomainList
        BY <1>5 DEF EachDomain, PathInv, ListInv
      <3> QED
        BY <1>5, <3>1 DEF EachDomain, SetWatch, SetWatchThrows, Fault, CountFault, Goto
    <2>2. /\ watchPc = "eachDomain" /\ dom \in Domains
          /\ UNCHANGED <<xenstore, thread, mFrontendHandlers, ownerPc, path, new>>
      BY <1>5 DEF EachDomain, PathInv
    <2>3. TypeInv'
      <3>1. IsFiniteSet(mWatches')
        BY <1>5, FS_AddElement DEF EachDomain, SetWatch, SetWatchThrows, TypeInv
      <3> QED
        BY <1>5, <3>1 DEF EachDomain, SetWatch, SetWatchThrows, Fault, CountFault, Goto,
           TypeInv, WatchPc, PathInv, xenstore, thread, bounds
    <2>4. EventInv'
      <3>1. PICK p \in todo :
              \/ UNCHANGED events
              \/ SetWatch(p)
        BY <1>5 DEF EachDomain
      <3>2. p \in Path
        BY DEF TypeInv
      <3> QED
        BY <3>1, <3>2, WatchFires DEF EventInv
    <2>5. PathInv'
      BY <1>5 DEF EachDomain, Goto, PathInv
    <2>6. ListInv'
      <3>1. (mWatches \intersect Domains \subseteq mDomainList)'
        BY <2>1, <2>2 DEF ListInv
      <3>2. Fresh' => Fresh
        BY <2>1, <2>2 DEF Fresh, bounds
      <3>3. Fresh' => (mDomainList \subseteq mWatches)'
        BY <2>1, <2>2, <3>2 DEF ListInv
      <3>4. Served' = Served
        BY <2>2 DEF Served
      <3>5. Fresh' => Served' \subseteq mWatches'
        BY <2>1, <2>2, <3>2, <3>4 DEF ListInv
      <3> QED
        <4>1. Fresh' => Served' \subseteq
                 mWatches' \union (IF watchPc' \in {"delete", "dead"} THEN {path'} ELSE {})
          BY <3>5
        <4>2. starts' = starts /\ ownerPc' = ownerPc /\ watchPc' # "start"
          BY <2>1, <2>2 DEF bounds
        <4>3. ownerPc # "new"
          BY <2>2 DEF ThreadInv
        <4> QED
          BY <3>1, <3>3, <4>1, <4>2, <4>3 DEF ListInv
    <2>7. ThreadInv'
      BY <2>1, <2>2, Kinds DEF ThreadInv, TypeInv, thread, bounds
    <2>8. GenInv'
      BY <1>5 DEF EachDomain, SetWatch, SetWatchThrows, Fault, CountFault, Goto, GenInv,
         xenstore, bounds
    <2> QED
      BY <2>3, <2>4, <2>5, <2>6, <2>7, <2>8
  <1>6. CASE DeviceListChanged
    <2>1. /\ Fault \/ UNCHANGED bounds
          /\ UNCHANGED <<xenstore, events, mWatches, thread, lists, ownerPc, locals>>
          /\ watchPc = "devices" /\ watchPc' \in {"readDevices", "forget", "poll"}
      BY <1>6 DEF DeviceListChanged, Goto
    <2>2. TypeInv'
      BY <2>1, Faults DEF TypeInv, WatchPc, xenstore, lists, locals, thread
    <2>3. EventInv' /\ PathInv'
      BY <2>1 DEF EventInv, PathInv, locals
    <2>4. ListInv'
      BY <2>1, Faults DEF ListInv, Fresh, Served, lists, locals
    <2>5. ThreadInv'
      BY <2>1, Faults DEF ThreadInv, thread, bounds
    <2>6. GenInv'
      BY <2>1, Faults DEF GenInv, xenstore, lists, locals
    <2> QED
      BY <2>2, <2>3, <2>4, <2>5, <2>6
  <1>7. CASE ForgetDomain
    <2>1. TypeInv'
      <3>1. IsFiniteSet(mWatches')
        <4>1. mWatches' = mWatches \ {path}
          BY <1>7 DEF ForgetDomain, ClearWatch
        <4>2. IsFiniteSet(mWatches)
          BY DEF TypeInv
        <4> QED
          BY <4>1, <4>2, FS_RemoveElement
      <3> QED
        BY <1>7, <3>1 DEF ForgetDomain, ClearWatch, Goto, TypeInv, WatchPc, xenstore,
           locals, thread, bounds
    <2>2. EventInv'
      BY <1>7 DEF ForgetDomain, EventInv
    <2>3. PathInv'
      BY <1>7 DEF ForgetDomain, Goto, PathInv
    <2>4. ListInv'
      BY <1>7, Kinds DEF ForgetDomain, ClearWatch, Goto, ListInv, PathInv, TypeInv, Fresh,
         Served, bounds
    <2>5. ThreadInv'
      BY <1>7 DEF ForgetDomain, Goto, ThreadInv, thread, bounds
    <2>6. GenInv'
      BY <1>7 DEF ForgetDomain, Goto, GenInv, xenstore, locals, bounds
    <2> QED
      BY <2>1, <2>2, <2>3, <2>4, <2>5, <2>6
  <1>8. CASE ReadDevices
    <2>1. /\ Fault \/ UNCHANGED bounds
          /\ todo' \subseteq nodes /\ \A p \in todo' : Child(path, p)
          /\ UNCHANGED <<xenstore, events, mWatches, thread, lists, ownerPc, path, new>>
          /\ watchPc = "readDevices" /\ watchPc' = "eachDevice"
      BY <1>8 DEF ReadDevices, ReadDirectory, Goto
    <2>2. TypeInv'
      BY <2>1, Faults DEF TypeInv, WatchPc, Path, xenstore, lists, thread
    <2>3. EventInv'
      BY <2>1 DEF EventInv
    <2>4. PathInv'
      BY <2>1, Children DEF PathInv, TypeInv
    <2>5. ListInv'
      BY <2>1, Faults DEF ListInv, Fresh, Served, lists
    <2>6. ThreadInv'
      BY <2>1, Faults DEF ThreadInv, thread, bounds
    <2>7. GenInv'
      BY <2>1, Faults DEF GenInv, xenstore, lists, bounds
    <2> QED
      BY <2>2, <2>3, <2>4, <2>5, <2>6, <2>7
  <1>9. CASE EachDevice
    <2>1. TypeInv'
      BY <1>9 DEF EachDevice, Handler, Goto, PathInv, TypeInv, WatchPc, xenstore, lists,
         thread, bounds
    <2>2. EventInv' /\ PathInv'
      BY <1>9 DEF EachDevice, Goto, EventInv, PathInv
    <2>3. ListInv'
      BY <1>9 DEF EachDevice, Goto, ListInv, Fresh, Served, lists, bounds
    <2>4. ThreadInv'
      BY <1>9 DEF EachDevice, Goto, ThreadInv, thread, bounds
    <2>5. GenInv'
      BY <1>9 DEF EachDevice, Handler, Goto, PathInv, TypeInv, GenInv, xenstore, lists, bounds
    <2> QED
      BY <2>1, <2>2, <2>3, <2>4, <2>5
  <1>10. CASE Construct
    <2>1. TypeInv'
      BY <1>10 DEF Construct, Handler, Fault, CountFault, Goto, TypeInv, WatchPc, xenstore,
         lists, thread, bounds
    <2>2. EventInv'
      <3>1. new.dev \in Devices
        BY DEF TypeInv
      <3> QED
        BY <1>10, <3>1, HandlerFires DEF Construct, EventInv
    <2>3. PathInv'
      BY <1>10 DEF Construct, Goto, PathInv
    <2>4. ListInv'
      BY <1>10 DEF Construct, Fault, CountFault, Goto, ListInv, Fresh, Served, lists, bounds
    <2>5. ThreadInv'
      BY <1>10 DEF Construct, Fault, CountFault, Goto, ThreadInv, TypeInv, thread, bounds
    <2>6. GenInv'
      BY <1>10 DEF Construct, Handler, Fault, CountFault, Goto, GenInv, TypeInv, xenstore,
         lists, bounds
    <2> QED
      BY <2>1, <2>2, <2>3, <2>4, <2>5, <2>6
  <1>11. CASE AddFrontendHandler
    <2>1. TypeInv'
      <3>1. IsFiniteSet(mWatches')
        BY <1>11, FS_AddElement DEF AddFrontendHandler, SetWatch, SetWatchThrows, TypeInv
      <3> QED
        BY <1>11, <3>1 DEF AddFrontendHandler, SetWatch, SetWatchThrows, Fault, CountFault,
           Goto, TypeInv, WatchPc, Path, xenstore, lists, locals, thread, bounds
    <2>2. EventInv'
      <3>1. new.dev \in Devices /\ new.dev \in Path
        BY DEF TypeInv, Path
      <3> QED
        BY <1>11, <3>1, HandlerFires, WatchFires DEF AddFrontendHandler
    <2>3. PathInv'
      BY <1>11 DEF AddFrontendHandler, Goto, PathInv, locals
    <2>4. ListInv'
      BY <1>11, Kinds DEF AddFrontendHandler, SetWatch, SetWatchThrows, Fault, CountFault,
         Goto, ListInv, TypeInv, Fresh, Served, lists, locals, bounds
    <2>5. ThreadInv'
      BY <1>11 DEF AddFrontendHandler, SetWatch, SetWatchThrows, Fault, CountFault, Goto,
         ThreadInv, TypeInv, thread, bounds
    <2>6. GenInv'
      BY <1>11 DEF AddFrontendHandler, SetWatch, SetWatchThrows, Fault, CountFault, Goto,
         GenInv, xenstore, lists, locals, bounds
    <2> QED
      BY <2>1, <2>2, <2>3, <2>4, <2>5, <2>6
  <1>12. CASE StartHandler
    <2>1. TypeInv'
      BY <1>12 DEF StartHandler, Fault, CountFault, Goto, TypeInv, WatchPc, xenstore, locals,
         thread, bounds
    <2>2. EventInv'
      <3>1. new.dev \in Devices
        BY DEF TypeInv
      <3> QED
        BY <1>12, <3>1, HandlerFires DEF StartHandler, EventInv
    <2>3. PathInv'
      BY <1>12 DEF StartHandler, Goto, PathInv, locals
    <2>4. ListInv'
      <3>1. CASE mFrontendHandlers' = mFrontendHandlers \union {new}
        <4>1. Served' = Served \union {new.dev}
          BY <3>1 DEF Served
        <4>2. /\ watchPc = "start" /\ watchPc' = "eachDevice"
              /\ UNCHANGED <<mWatches, mDomainList, ownerPc, path>>
          BY <1>12 DEF StartHandler, Goto, locals
        <4>3. starts' = starts
          BY <1>12 DEF StartHandler, Fault, CountFault, bounds
        <4>4. ownerPc # "new"
          BY <4>2 DEF ThreadInv
        <4>5. Fresh' => Served' \subseteq mWatches'
          BY <4>1, <4>2, <4>3 DEF ListInv, Fresh
        <4> QED
          BY <4>2, <4>3, <4>4, <4>5 DEF ListInv, Fresh
      <3>2. CASE UNCHANGED mFrontendHandlers
        BY <1>12, <3>2 DEF StartHandler, Fault, CountFault, Goto, ListInv, Fresh, Served,
           bounds
      <3> QED
        BY <1>12, <3>1, <3>2 DEF StartHandler
    <2>5. ThreadInv'
      BY <1>12 DEF StartHandler, Fault, CountFault, Goto, ThreadInv, TypeInv, thread, bounds
    <2>6. GenInv'
      BY <1>12 DEF StartHandler, Fault, CountFault, Goto, GenInv, xenstore, locals, bounds
    <2> QED
      BY <2>1, <2>2, <2>3, <2>4, <2>5, <2>6
  <1>13. CASE FrontendPathChanged
    <2>1. /\ Fault \/ Misread \/ UNCHANGED bounds
          /\ UNCHANGED <<xenstore, events, mWatches, thread, lists, ownerPc, locals>>
          /\ watchPc = "frontend" /\ watchPc' \in {"poll", "unwatch"}
      BY <1>13 DEF FrontendPathChanged, Goto
    <2>2. TypeInv'
      BY <2>1, Faults DEF TypeInv, WatchPc, xenstore, lists, locals, thread
    <2>3. EventInv' /\ PathInv'
      BY <2>1 DEF EventInv, PathInv, locals
    <2>4. ListInv'
      BY <2>1, Faults DEF ListInv, Fresh, Served, lists, locals
    <2>5. ThreadInv'
      BY <2>1, Faults DEF ThreadInv, thread, bounds
    <2>6. GenInv'
      <3>1. watchPc' = "unwatch" => misread' \/ path \notin nodes
        BY <1>13, <2>1 DEF FrontendPathChanged, Goto, Misread
      <3>2. UNCHANGED <<gen, nodes, mFrontendHandlers, new, path>> /\ changes' = changes
        BY <2>1, Faults DEF xenstore, lists, locals
      <3>3. watchPc' # "delete"
        BY <2>1
      <3> QED
        BY <3>1, <3>2, <3>3 DEF GenInv
    <2> QED
      BY <2>2, <2>3, <2>4, <2>5, <2>6
  <1>14. CASE UnwatchFrontend
    <2>1. TypeInv'
      <3>1. IsFiniteSet(mWatches')
        <4>1. mWatches' = mWatches \ {path}
          BY <1>14 DEF UnwatchFrontend, ClearWatch
        <4>2. IsFiniteSet(mWatches)
          BY DEF TypeInv
        <4> QED
          BY <4>1, <4>2, FS_RemoveElement
      <3> QED
        BY <1>14, <3>1 DEF UnwatchFrontend, ClearWatch, Goto, TypeInv, WatchPc, xenstore,
           lists, locals, thread, bounds
    <2>2. EventInv'
      BY <1>14 DEF UnwatchFrontend, EventInv
    <2>3. PathInv'
      BY <1>14 DEF UnwatchFrontend, Goto, PathInv, locals
    <2>4. ListInv'
      BY <1>14, Kinds DEF UnwatchFrontend, ClearWatch, Goto, ListInv, PathInv, TypeInv,
         Fresh, Served, lists, locals, bounds
    <2>5. ThreadInv'
      BY <1>14 DEF UnwatchFrontend, Goto, ThreadInv, thread, bounds
    <2>6. GenInv'
      BY <1>14 DEF UnwatchFrontend, GenInv, xenstore, lists, locals, bounds
    <2> QED
      BY <2>1, <2>2, <2>3, <2>4, <2>5, <2>6
  <1>15. CASE DeleteHandler
    <2>1. /\ Fault \/ UNCHANGED bounds
          /\ UNCHANGED <<xenstore, mWatches, thread, mDomainList, ownerPc, locals>>
          /\ watchPc = "delete"
          /\ \/ /\ watchPc' = "poll" /\ UNCHANGED bounds
                /\ mFrontendHandlers' = {h \in mFrontendHandlers : h.dev # path}
             \/ watchPc' = "dead" /\ Fault /\ UNCHANGED mFrontendHandlers
      BY <1>15 DEF DeleteHandler, Goto
    <2>2. TypeInv'
      BY <2>1, Faults DEF TypeInv, WatchPc, xenstore, locals, thread
    <2>3. EventInv'
      <3>1. path \in Devices
        BY <2>1 DEF PathInv
      <3> QED
        BY <1>15, <3>1, HandlerFires DEF DeleteHandler, EventInv
    <2>4. PathInv'
      BY <2>1 DEF PathInv
    <2>5. ListInv'
      BY <2>1, Faults DEF ListInv, Fresh, Served, locals
    <2>6. ThreadInv'
      BY <2>1, Faults DEF ThreadInv, thread, bounds, Fault, CountFault, TypeInv
    <2>7. GenInv'
      BY <2>1, Faults DEF GenInv, xenstore, locals
    <2> QED
      BY <2>2, <2>3, <2>4, <2>5, <2>6, <2>7
  <1>16. CASE PollFails
    <2>1. /\ Fault
          /\ UNCHANGED <<xenstore, events, mWatches, thread, lists, ownerPc, locals>>
          /\ watchPc = "poll" /\ watchPc' = "dead"
      BY <1>16 DEF PollFails, Goto
    <2>2. TypeInv'
      BY <2>1, Faults DEF TypeInv, WatchPc, xenstore, lists, locals, thread
    <2>3. EventInv' /\ PathInv'
      BY <2>1 DEF EventInv, PathInv, locals
    <2>4. ListInv'
      BY <2>1, Faults DEF ListInv, Fresh, Served, lists, locals
    <2>5. ThreadInv'
      BY <2>1, Faults DEF ThreadInv, thread, Fault, CountFault, TypeInv
    <2>6. GenInv'
      BY <2>1, Faults DEF GenInv, xenstore, lists, locals
    <2> QED
      BY <2>2, <2>3, <2>4, <2>5, <2>6
  <1> QED
    BY <1>1, <1>2, <1>3, <1>4, <1>5, <1>6, <1>7, <1>8, <1>9, <1>10, <1>11, <1>12, <1>13,
      <1>14, <1>15, <1>16 DEF Watch

\* A signal preserves it.
LEMMA SignalInv ==
  ASSUME IInv, PollInterrupted
  PROVE  IInv'
  <1> USE BackendAssumption DEF IInv
  <1>1. /\ UNCHANGED <<xenstore, events, mWatches, thread, lists, ownerPc, locals,
                       changes, starts, faults, misread>>
        /\ watchPc = "poll" /\ watchPc' = "read"
        /\ interrupts < MaxInterrupts /\ interrupts' = interrupts + 1
    BY DEF PollInterrupted, Goto
  <1>2. TypeInv'
    BY <1>1 DEF TypeInv, WatchPc, xenstore, lists, locals, thread
  <1>3. EventInv' /\ PathInv'
    BY <1>1 DEF EventInv, PathInv, locals
  <1>4. ListInv' /\ ThreadInv' /\ GenInv'
    BY <1>1 DEF ListInv, Fresh, Served, ThreadInv, GenInv, xenstore, lists, locals, thread
  <1> QED
    BY <1>2, <1>3, <1>4

\* The toolstack preserves it.
LEMMA ToolstackInv ==
  ASSUME IInv, Toolstack
  PROVE  IInv'
  <1> USE BackendAssumption DEF IInv
  <1>1. CASE \E dev \in Devices : AddDevice(dev)
    <2>1. TypeInv'
      <3>1. PICK dev \in Devices : AddDevice(dev)
        BY <1>1
      <3>2. nodes' \subseteq Domains \union Devices
        BY <3>1, Lengths DEF AddDevice, TypeInv
      <3>3. gen' \in [Devices -> Nat]
        BY <3>1 DEF AddDevice, TypeInv
      <3> QED
        BY <3>1, <3>2, <3>3 DEF AddDevice, Change, TypeInv, thread, lists, locals
    <2>2. EventInv'
      <3>1. PICK dev \in Devices : Fire(WatchesAbove(dev))
        BY <1>1 DEF AddDevice
      <3>2. WatchesAbove(dev) \subseteq Path /\ IsFiniteSet(WatchesAbove(dev))
        BY FS_Subset DEF WatchesAbove, TypeInv
      <3> QED
        BY <3>1, <3>2, Fires
    <2>3. PathInv'
      BY <1>1 DEF AddDevice, PathInv, locals
    <2>4. ListInv'
      BY <1>1 DEF AddDevice, Change, ListInv, Fresh, Served, lists, locals
    <2>5. ThreadInv'
      BY <1>1 DEF AddDevice, Change, ThreadInv, thread
    <2>6. GenInv'
      BY <1>1 DEF AddDevice, Change, GenInv, TypeInv, lists, locals
    <2> QED
      BY <2>1, <2>2, <2>3, <2>4, <2>5, <2>6
  <1>2. CASE \E p \in Path : RemovePath(p)
    <2>1. TypeInv'
      BY <1>2 DEF RemovePath, Change, TypeInv, lists, locals, thread
    <2>2. EventInv'
      <3>1. PICK p \in Path : Fire(WatchesOf(p))
        BY <1>2 DEF RemovePath
      <3>2. WatchesOf(p) \subseteq Path /\ IsFiniteSet(WatchesOf(p))
        BY FS_Subset DEF WatchesOf, TypeInv
      <3> QED
        BY <3>1, <3>2, Fires
    <2>3. PathInv'
      BY <1>2 DEF RemovePath, PathInv, locals
    <2>4. ListInv'
      BY <1>2 DEF RemovePath, Change, ListInv, Fresh, Served, lists, locals
    <2>5. ThreadInv'
      BY <1>2 DEF RemovePath, Change, ThreadInv, thread
    <2>6. GenInv'
      BY <1>2 DEF RemovePath, Change, GenInv, TypeInv, lists, locals
    <2> QED
      BY <2>1, <2>2, <2>3, <2>4, <2>5, <2>6
  <1> QED
    BY <1>1, <1>2 DEF Toolstack

\* So does a step that changes nothing.
LEMMA StutterInv ==
  ASSUME IInv, UNCHANGED vars
  PROVE  IInv'
  BY DEF IInv, TypeInv, EventInv, PathInv, ListInv, ThreadInv, GenInv, Fresh, Served, vars,
     xenstore, lists, locals, thread, bounds

\* The invariant holds when the process starts.
LEMMA InitInv ==
  ASSUME Init
  PROVE  IInv
  <1>1. (CHOOSE dev \in Devices : TRUE) \in Devices
    BY BackendAssumption
  <1>2. TypeInv
    <2>1. new \in [dev : Devices, gen : Nat]
      <3> DEFINE d == CHOOSE dev \in Devices : TRUE
      <3>1. new = [dev |-> d, gen |-> gen[d]] /\ gen = [dev \in Devices |-> 0]
        BY DEF Init, Handler
      <3>2. d \in Devices
        BY <1>1
      <3> HIDE DEF d
      <3> QED
        BY <3>1, <3>2
    <2>2. gen \in [Devices -> Nat] /\ IsFiniteSet(mWatches)
      BY FS_EmptySet DEF Init
    <2>3. mStarted \in BOOLEAN /\ ownerPc \in OwnerPc /\ watchPc \in WatchPc
      BY DEF Init, OwnerPc, WatchPc
    <2>4. path \in Path
      BY DEF Init, Path
    <2>5. changes \in 0 .. MaxChanges /\ starts \in 0 .. MaxStarts
         /\ interrupts \in 0 .. MaxInterrupts /\ faults \in 0 .. MaxFaults
      BY BackendAssumption DEF Init
    <2>6. misread \in BOOLEAN
      BY DEF Init
    <2> QED
      BY <2>1, <2>2, <2>3, <2>4, <2>5, <2>6 DEF Init, TypeInv
  <1>3. EventInv
    BY DEF Init, EventInv, IsInjective
  <1>4. PathInv /\ ListInv /\ ThreadInv
    BY DEF Init, PathInv, ListInv, ThreadInv, Served
  <1>5. GenInv
    BY <1>1 DEF Init, GenInv, Handler
  <1> QED
    BY <1>2, <1>3, <1>4, <1>5 DEF IInv

\* The inductive invariant.
THEOREM Invariance == Spec => []IInv
  <1>1. Init => IInv
    BY InitInv
  <1>2. IInv /\ [Next]_vars => IInv'
    BY OwnerInv, WatchInv, SignalInv, ToolstackInv, StutterInv DEF Next, Idle
  <1> QED
    BY <1>1, <1>2, PTL DEF Spec

-----------------------------------------------------------------------------
(* The theorems *)

\* The types: the bytes of the pipe and the handlers' generations stay in
\* their bounds, no token is pending twice.
THEOREM TypeCorrect == Spec => []TypeOK
  <1>1. IInv => TypeOK
    <2> SUFFICES ASSUME IInv
                 PROVE  TypeOK
      OBVIOUS
    <2> USE BackendAssumption DEF IInv
    <2>1. gen \in [Devices -> 0 .. MaxChanges]
      BY DEF TypeInv, GenInv
    <2>2. \A h \in [dev : Devices, gen : Nat] : h.gen <= gen[h.dev] => h \in Handlers
      BY <2>1 DEF Handlers
    <2>3. mFrontendHandlers \subseteq Handlers /\ new \in Handlers
      BY <2>2 DEF TypeInv, GenInv
    <2>4. pipe \in 0 .. MaxStarts /\ (faults = 0 => pipe \in {0, 1})
      BY DEF TypeInv, ThreadInv
    <2> QED
      BY <2>1, <2>3, <2>4 DEF TypeOK, TypeInv, EventInv, OwnerPc, WatchPc
  <1> QED
    BY <1>1, Invariance, PTL

\* Until the first stop(), the domains of mDomainList are the ones watched, and
\* so is every frontend with a handler, whatever has failed, but for the one
\* being deleted: if its stop() throws it stays listed, the watch thread ended.
THEOREM ListsWatched == Spec => []ListedIsWatched
  <1>1. IInv => ListedIsWatched
    BY DEF IInv, TypeInv, ListInv, Fresh, ListedIsWatched
  <1> QED
    BY <1>1, Invariance, PTL

\* Without a failure of the store the watch thread runs as long as the
\* backend does, through every stop() and start().
THEOREM Survives == Spec => []ThreadSurvives
  <1>1. IInv => ThreadSurvives
    BY DEF IInv, ThreadInv, ThreadSurvives
  <1> QED
    BY <1>1, Invariance, PTL

\* All but three actions leave the handlers as they are.
LEMMA HandlersKept ==
  ASSUME \/ Start \/ ClearWatches \/ Owner \/ Idle \/ Toolstack
         \/ Terminate \/ PollInterrupted \/ PollFails \/ ReadWatch
         \/ EndOfDirectory \/ DomainListChanged \/ EachDomain
         \/ DeviceListChanged \/ ForgetDomain \/ ReadDevices \/ EachDevice
         \/ Construct \/ AddFrontendHandler \/ FrontendPathChanged \/ UnwatchFrontend
  PROVE  mFrontendHandlers' = mFrontendHandlers
  BY DEF Start, ClearWatches, Owner, WatchFrontendsPath, Signal, Join, Idle, Toolstack,
     AddDevice, RemovePath, Terminate, PollInterrupted, PollFails, ReadWatch,
     EndOfDirectory, DomainListChanged,
     EachDomain, DeviceListChanged, ForgetDomain, ReadDevices, ReadDirectory, EachDevice,
     Construct, AddFrontendHandler, FrontendPathChanged, UnwatchFrontend, lists, vars

\* The handler that frontendPathChanged() deletes is of a device whose node
\* is missing, or was when the callback looked.
THEOREM DroppedGone == Spec => DroppedOnlyIfGone
  <1>1. IInv /\ [Next]_vars
        => [~misread => \A h \in mFrontendHandlers \ mFrontendHandlers' :
              \/ h.dev \notin nodes \/ h.gen < gen[h.dev]
              \/ ownerPc' = "gone"]_vars
    <2> SUFFICES ASSUME IInv, Next, ~misread,
                        NEW h \in mFrontendHandlers \ mFrontendHandlers'
                 PROVE  \/ h.dev \notin nodes \/ h.gen < gen[h.dev]
                        \/ ownerPc' = "gone"
      OBVIOUS
    <2>1. CASE mFrontendHandlers \subseteq mFrontendHandlers'
      BY <2>1
    <2>2. CASE Destroy
      BY <2>2 DEF Destroy
    <2>3. CASE StartHandler
      BY <2>1, <2>3 DEF StartHandler
    <2>4. CASE DeleteHandler
      <3>1. watchPc = "delete" /\ h.dev = path
        BY <2>1, <2>4 DEF DeleteHandler
      <3> QED
        BY <3>1 DEF IInv, GenInv
    <2> QED
      BY <2>1, <2>2, <2>3, <2>4, HandlersKept DEF Next, Watch
  <1> QED
    BY <1>1, Invariance, PTL DEF Spec, DroppedOnlyIfGone

-----------------------------------------------------------------------------
(* The end of the watch thread *)

\* Where the watch thread is in an iteration of its loop: the later, the less.
Phase == CASE watchPc = "dead" -> 0
           [] watchPc = "poll" -> 1
           [] watchPc \in {"forget", "delete"} -> 2
           [] watchPc \in {"eachDomain", "eachDevice", "construct", "add", "start"} -> 3
           [] watchPc \in {"domains", "readDevices", "unwatch"} -> 4
           [] watchPc \in {"devices", "frontend"} -> 5
           [] watchPc = "read" -> 6
Stage == CASE watchPc = "construct" -> 3
           [] watchPc = "add"       -> 2
           [] watchPc = "start"     -> 1
           [] OTHER                 -> 0

\* A step towards the end: of the iteration, of the directory read, or of
\* what is done for one of its entries.
Nearer == \/ Phase' < Phase
          \/ Phase' = Phase /\ Cardinality(todo') < Cardinality(todo)
          \/ Phase' = Phase /\ todo' = todo /\ Stage' < Stage

\* What is safety in StopReturns: while stop() waits for the watch thread, each
\* step of that thread is one towards its end, and nobody else puts it back but
\* a signal, which has it read an event more (and block, if there is none).
StopEnds ==
  [][ownerPc = "join" /\ ownerPc' = "join" =>
       IF Watch THEN Nearer ELSE PollInterrupted \/ UNCHANGED <<watchPc, todo>>]_vars

\* A directory has finitely many entries.
FiniteInv == IsFiniteSet(nodes) /\ IsFiniteSet(todo)

\* What there is in the store, and what was read of it, stays finite.
LEMMA FiniteNext ==
  ASSUME FiniteInv, [Next]_vars
  PROVE  FiniteInv'
  <1> USE DEF FiniteInv
  <1>1. CASE UNCHANGED <<nodes, todo>>
    BY <1>1
  <1>2. CASE DomainListChanged \/ ReadDevices
    <2>1. nodes' = nodes /\ todo' \subseteq nodes
      BY <1>2 DEF DomainListChanged, ReadDevices, ReadDirectory, xenstore
    <2> QED
      BY <2>1, FS_Subset
  <1>3. CASE EachDomain \/ EachDevice
    <2>1. nodes' = nodes /\ todo' \subseteq todo
      BY <1>3 DEF EachDomain, EachDevice, xenstore
    <2> QED
      BY <2>1, FS_Subset
  <1>4. CASE Toolstack
    <2>1. todo' = todo
      BY <1>4 DEF Toolstack, AddDevice, RemovePath, locals
    <2>2. ASSUME NEW dev \in Devices, AddDevice(dev)
          PROVE  IsFiniteSet(nodes')
      <3>1. nodes' = (nodes \union {dev}) \union {<<dev[1]>>}
        BY <2>2 DEF AddDevice
      <3> QED
        BY <3>1, FS_AddElement
    <2>3. ASSUME NEW p \in Path, RemovePath(p)
          PROVE  IsFiniteSet(nodes')
      <3>1. nodes' \subseteq nodes
        BY <2>3 DEF RemovePath
      <3> QED
        BY <3>1, FS_Subset
    <2> QED
      BY <1>4, <2>1, <2>2, <2>3 DEF Toolstack
  <1>5. ASSUME Start \/ ClearWatches \/ Destroy \/ Owner \/ Idle
        PROVE  UNCHANGED <<nodes, todo>>
    BY <1>5 DEF Start, ClearWatches, Destroy, Owner, WatchFrontendsPath, Signal, Join, Idle,
       xenstore, locals, vars
  <1>6. ASSUME \/ Terminate \/ PollInterrupted \/ PollFails \/ ReadWatch
               \/ EndOfDirectory \/ DeviceListChanged
               \/ ForgetDomain \/ Construct \/ AddFrontendHandler \/ StartHandler
               \/ FrontendPathChanged \/ UnwatchFrontend \/ DeleteHandler
        PROVE  UNCHANGED <<nodes, todo>>
    BY <1>6 DEF Terminate, PollInterrupted, PollFails, ReadWatch, EndOfDirectory,
       DeviceListChanged, ForgetDomain,
       Construct, AddFrontendHandler, StartHandler, FrontendPathChanged, UnwatchFrontend,
       DeleteHandler, xenstore, locals
  <1>7. CASE UNCHANGED vars
    BY <1>7 DEF vars, xenstore, locals
  <1> QED
    BY <1>1, <1>2, <1>3, <1>4, <1>5, <1>6, <1>7 DEF Next, Watch

\* The loops over a directory take an entry with each iteration.
LEMMA OneLess ==
  ASSUME FiniteInv, NEW p \in todo, todo' = todo \ {p}
  PROVE  Cardinality(todo') < Cardinality(todo)
  <1>1. Cardinality(todo \ {p}) = Cardinality(todo) - 1 /\ Cardinality(todo) \in Nat
    BY FS_RemoveElement, FS_CardinalityType DEF FiniteInv
  <1> QED
    BY <1>1

\* A callback comes to its end, and the pipe is looked at before the next event,
\* unless a signal has interrupted poll().
LEMMA WatchNearer ==
  ASSUME IInv, FiniteInv, ownerPc = "join", Watch
  PROVE  Nearer
  <1> USE DEF Goto
  <1>1. CASE ReadWatch
    <2>1. watchPc = "dead" \/ pipe > 0
      BY DEF IInv, ThreadInv
    <2>2. watchPc = "read"
      BY <1>1, <2>1 DEF ReadWatch
    <2>3. watchPc' \in {"poll", "domains", "devices", "frontend"}
      BY <1>1, Reads, Kinds DEF ReadWatch, Path, IInv
    <2> QED
      BY <2>2, <2>3 DEF Nearer, Phase
  <1>2. CASE EachDomain
    <2>1. PICK dom \in todo : todo' = todo \ {dom}
      BY <1>2 DEF EachDomain
    <2>2. Cardinality(todo') < Cardinality(todo)
      BY <2>1, OneLess
    <2>3. watchPc = "eachDomain" /\ watchPc' \in {"eachDomain", "dead"}
      BY <1>2 DEF EachDomain
    <2> QED
      BY <2>2, <2>3 DEF Nearer, Phase
  <1>3. CASE EachDevice
    <2>1. PICK dev \in todo : todo' = todo \ {dev}
      BY <1>3 DEF EachDevice
    <2>2. Cardinality(todo') < Cardinality(todo)
      BY <2>1, OneLess
    <2>3. watchPc = "eachDevice" /\ watchPc' \in {"eachDevice", "construct"}
      BY <1>3 DEF EachDevice
    <2> QED
      BY <2>2, <2>3 DEF Nearer, Phase
  <1>4. CASE Construct \/ AddFrontendHandler \/ StartHandler
    <2>1. todo' = todo
      BY <1>4 DEF Construct, AddFrontendHandler, StartHandler, locals
    <2>2. \/ watchPc = "construct" /\ watchPc' \in {"add", "eachDevice"}
          \/ watchPc = "add" /\ watchPc' \in {"start", "eachDevice"}
          \/ watchPc = "start" /\ watchPc' = "eachDevice"
      BY <1>4 DEF Construct, AddFrontendHandler, StartHandler
    <2> QED
      BY <2>1, <2>2 DEF Nearer, Phase, Stage
  <1>5. CASE \/ Terminate \/ PollFails \/ EndOfDirectory
             \/ DomainListChanged \/ DeviceListChanged
             \/ ForgetDomain \/ ReadDevices \/ FrontendPathChanged \/ UnwatchFrontend
             \/ DeleteHandler
    BY <1>5 DEF Terminate, PollFails, EndOfDirectory, DomainListChanged, DeviceListChanged,
       ForgetDomain, ReadDevices, ReadDirectory, FrontendPathChanged, UnwatchFrontend,
       DeleteHandler, Nearer, Phase
  <1> QED
    BY <1>1, <1>2, <1>3, <1>4, <1>5 DEF Watch

\* However many events are pending, whatever changes in the store and whatever
\* fails, stop() waits for the rest of one callback at most, and for one event
\* and its callback more each time a signal interrupts poll().
THEOREM StopIsBounded == Spec => StopEnds
  <1>1. IInv /\ FiniteInv /\ [Next]_vars
        => [ownerPc = "join" /\ ownerPc' = "join" =>
              IF Watch THEN Nearer
                       ELSE PollInterrupted \/ UNCHANGED <<watchPc, todo>>]_vars
    <2> SUFFICES ASSUME IInv, FiniteInv, Next, ownerPc = "join", ownerPc' = "join", ~Watch,
                        ~PollInterrupted
                 PROVE  UNCHANGED <<watchPc, todo>>
      BY WatchNearer
    <2>1. CASE Start \/ ClearWatches \/ Destroy \/ Owner \/ Idle
      BY <2>1 DEF Start, ClearWatches, Destroy, Owner, WatchFrontendsPath, Signal, Join, Idle,
         vars, locals
    <2>2. CASE Toolstack
      BY <2>2 DEF Toolstack, AddDevice, RemovePath, locals
    <2> QED
      BY <2>1, <2>2 DEF Next
  <1>2. Init => FiniteInv
    BY FS_EmptySet DEF Init, FiniteInv
  <1>3. FiniteInv /\ [Next]_vars => FiniteInv'
    BY FiniteNext
  <1> QED
    BY <1>1, <1>2, <1>3, Invariance, PTL DEF Spec, StopEnds
=============================================================================
