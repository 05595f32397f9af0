-------------------------- MODULE RingErrors_proofs --------------------------
(***************************************************************************)
(* Two threads that close one handler, while the event thread of its ring  *)
(* fails: RingErrors' safety, for any number of notifications, interrupted *)
(* polls and errors.  (There are two closing threads in the code: the one  *)
(* of stop() and the one of mAsyncContext; ClosersAssumption.)             *)
(*                                                                         *)
(* The invariant has five parts.  OrderInv is CallsInOrder element by      *)
(* element.  StopInv: a stop() that waits for the event thread has written *)
(* the byte that ends it, and one that is over leaves no event thread.     *)
(* WhereInv: who is where in release(), and that a thread goes on to clear *)
(* the vector only if the event thread has ended or the vector is empty    *)
(* for good; it needs that a ring that is not yet in the vector can be in  *)
(* error only when its event thread has ended.  HeldInv: the ring is       *)
(* complete until the one thread that deletes it, the last to hold it.     *)
(***************************************************************************)
EXTENDS RingErrors, SequenceTheorems, FiniteSetTheorems, TLAPS

AtPc == {"idle", "take", "stop", "stopping", "clear", "destroy", "destroying", "unmap",
         "unbind", "closePipe", "done"}
OwnerPc == {"construct", "unwind", "unwindPipe", "unwound", "push", "up", "watchDead",
            "close", "join", "gone"}

\* What is posted
Post == {"store", "ring"}

\* Before the ring is started
Early == owner \in {"construct", "unwind", "unwindPipe", "unwound"}

\* t deletes the ring.
Destroying(t) == at[t] \in {"destroy", "destroying", "unmap", "unbind", "closePipe"}

\* RingTypeOK, but for OrderInv's part and for the bound of the pipe
TypeInv ==
  /\ held \subseteq Resource /\ thread \in Thread
  /\ mStarted \in BOOLEAN /\ joinable \in BOOLEAN /\ alive \in BOOLEAN /\ pending \in BOOLEAN
  /\ stopper \in [Closers -> {"idle", "signal", "join", "wait", "clear", "stopped"}]
  /\ pipe \in Nat
  /\ owner \in OwnerPc
  /\ listed \in BOOLEAN /\ refs \subseteq Closers
  /\ at \in [Closers -> AtPc]
-----------------------------------------------------------------------------
(* call() and run() *)

\* A call is being made.
InCall == runPc \in {"call", "return"}

\* CallsInOrder, element by element: the call being made is still in the list.
OrderInv ==
  /\ mAsyncCalls \in Seq(Post) /\ posted \in Seq(Post) /\ ran \in Seq(Post)
  /\ runPc \in A!RunPc
  /\ InCall => mAsyncCalls # <<>> /\ Len(ran) > 0
  /\ Len(posted) = A!Taken + Len(mAsyncCalls)
  /\ \A i \in 1..Len(mAsyncCalls) : mAsyncCalls[i] = posted[A!Taken + i]
  /\ \A i \in 1..Len(ran) : ran[i] = posted[i]

\* Appending to a list keeps what is in it.
LEMMA AppendKeeps ==
  ASSUME NEW S, NEW q \in Seq(S), NEW c \in S
  PROVE  /\ Append(q, c) \in Seq(S) /\ Len(q) \in Nat /\ Len(Append(q, c)) = Len(q) + 1
         /\ Append(q, c)[Len(q) + 1] = c
         /\ \A i \in 1..Len(q) : Append(q, c)[i] = q[i]
  OBVIOUS

\* call() appends to the list what it appends to the history.
LEMMA CallOrder ==
  ASSUME OrderInv, NEW c \in Post, A!Call(c)
  PROVE  OrderInv'
  <1>1. mAsyncCalls \in Seq(Post) /\ posted \in Seq(Post) /\ Len(ran) \in Nat /\ A!Taken \in Nat
    BY DEF OrderInv, InCall, A!Taken
  <1>2. mAsyncCalls' = Append(mAsyncCalls, c) /\ posted' = Append(posted, c)
    BY DEF A!Call
  <1>3. UNCHANGED <<ran, runPc, A!Taken, InCall>>
    BY DEF A!Call, A!Taken, InCall
  <1>4. /\ mAsyncCalls' \in Seq(Post) /\ Len(mAsyncCalls) \in Nat
        /\ Len(mAsyncCalls') = Len(mAsyncCalls) + 1
        /\ mAsyncCalls'[Len(mAsyncCalls) + 1] = c
        /\ \A i \in 1..Len(mAsyncCalls) : mAsyncCalls'[i] = mAsyncCalls[i]
    BY <1>1, <1>2, AppendKeeps
  <1>5. /\ posted' \in Seq(Post) /\ Len(posted) \in Nat /\ Len(posted') = Len(posted) + 1
        /\ posted'[Len(posted) + 1] = c
        /\ \A i \in 1..Len(posted) : posted'[i] = posted[i]
    BY <1>1, <1>2, AppendKeeps
  <1>6. InCall' => mAsyncCalls' # <<>> /\ Len(ran') > 0
    BY <1>3, <1>4 DEF OrderInv
  <1>7. Len(posted') = A!Taken' + Len(mAsyncCalls')
    BY <1>1, <1>3, <1>4, <1>5 DEF OrderInv
  <1>8. ASSUME NEW i \in 1..Len(mAsyncCalls')
        PROVE  mAsyncCalls'[i] = posted'[A!Taken' + i]
    <2>1. CASE i = Len(mAsyncCalls) + 1
      BY <1>3, <1>4, <1>5, <1>1, <2>1 DEF OrderInv
    <2>2. CASE i \in 1..Len(mAsyncCalls)
      <3>1. A!Taken + i \in 1..Len(posted)
        BY <1>1, <1>4, <1>5, <2>2 DEF OrderInv
      <3> QED
        BY <1>3, <1>4, <1>5, <2>2, <3>1 DEF OrderInv
    <2> QED
      BY <1>4, <2>1, <2>2
  <1>9. ASSUME NEW i \in 1..Len(ran')
        PROVE  ran'[i] = posted'[i]
    <2>1. i \in 1..Len(posted)
      BY <1>1, <1>3, <1>4, <1>5 DEF OrderInv, A!Taken, InCall
    <2> QED
      BY <1>3, <1>5, <2>1 DEF OrderInv
  <1> QED
    BY <1>3, <1>4, <1>5, <1>6, <1>7, <1>8, <1>9 DEF OrderInv

\* run() makes the call at the head and takes it off when it has returned.
LEMMA RunOrder ==
  ASSUME OrderInv, A!Run \/ A!CallReturns
  PROVE  OrderInv'
  <1> USE DEF OrderInv, InCall, A!Taken, A!RunPc, A!Goto
  <1>1. CASE A!Lock
    BY <1>1 DEF A!Lock
  <1>2. CASE A!Test
    BY <1>2 DEF A!Test
  <1>3. CASE A!Wake
    BY <1>3 DEF A!Wake
  <1>4. CASE A!Drain
    <2>1. CASE mAsyncCalls = <<>>
      BY <1>4, <2>1 DEF A!Drain
    <2>2. CASE mAsyncCalls # <<>>
      <3>1. /\ Head(mAsyncCalls) = mAsyncCalls[1] /\ Head(mAsyncCalls) \in Post
            /\ Len(mAsyncCalls) \in Nat \ {0} /\ Len(ran) \in Nat /\ ran \in Seq(Post)
        BY <2>2
      <3>2. /\ ran' = Append(ran, Head(mAsyncCalls)) /\ ~InCall /\ InCall' /\ runPc' = "call"
            /\ UNCHANGED <<mAsyncCalls, posted>>
        BY <1>4, <2>2 DEF A!Drain
      <3>3. /\ ran' \in Seq(Post) /\ Len(ran') = Len(ran) + 1
            /\ ran'[Len(ran) + 1] = mAsyncCalls[1]
            /\ \A i \in 1..Len(ran) : ran'[i] = ran[i]
        BY <3>1, <3>2, AppendKeeps
      <3>4. A!Taken' = A!Taken /\ A!Taken = Len(ran)
        BY <3>1, <3>2, <3>3
      <3>5. mAsyncCalls[1] = posted[Len(ran) + 1]
        <4>1. 1 \in 1..Len(mAsyncCalls) /\ A!Taken + 1 = Len(ran) + 1
          BY <3>1, <3>4
        <4> HIDE DEF A!Taken
        <4> QED
          BY <4>1
      <3>6. \A i \in 1..Len(ran') : ran'[i] = posted'[i]
        BY <3>1, <3>2, <3>3, <3>5
      <3>7. Len(posted') = A!Taken' + Len(mAsyncCalls')
        BY <3>2, <3>4
      <3>8. \A i \in 1..Len(mAsyncCalls') : mAsyncCalls'[i] = posted'[A!Taken' + i]
        BY <3>2, <3>4
      <3>9. InCall' => mAsyncCalls' # <<>> /\ Len(ran') > 0
        BY <2>2, <3>1, <3>2, <3>3
      <3> QED
        BY <3>2, <3>3, <3>6, <3>7, <3>8, <3>9
    <2> QED
      BY <2>1, <2>2
  <1>5. CASE A!Pop
    BY <1>5 DEF A!Pop
  <1>6. CASE A!CallReturns
    BY <1>6 DEF A!CallReturns
  <1> QED
    BY <1>1, <1>2, <1>3, <1>4, <1>5, <1>6 DEF A!Run

-----------------------------------------------------------------------------
(* stop() *)

\* t has yet to write the byte; t is in a stop() that writes one.
Signals(t) == IF stopper[t] = "signal" THEN 1 ELSE 0
Inside(t)  == IF stopper[t] \in {"signal", "join", "wait", "clear"} THEN 1 ELSE 0

\* What is safety in StopReturns: a thread that waits in stop() for the event
\* thread has told it so, and was not outrun by the byte of the other's stop().
StopHeard == \A t \in Closers : stopper[t] \in {"join", "wait"} => ~Running \/ pipe > 0

\* An event thread that runs can be stopped, and a stop() past its join has left
\* none; every stop() writes one byte, and once one is over there is no other.
StopInv ==
  /\ Running => mStarted /\ joinable
  /\ \A t \in Closers : stopper[t] \in {"clear", "stopped"} => ~Running
  /\ StopHeard
  /\ pipe + Signals("owner") + Signals("async") <=
       IF mStarted THEN Inside("owner") + Inside("async") ELSE 2
  /\ Early => ~mStarted /\ pipe = 0
-----------------------------------------------------------------------------
(* release() *)

\* release() begins when the handler has been up, or, in mAsyncContext, when
\* something was posted: before the ring is listed, by its event thread's end.
WhereInv ==
  /\ Early => thread = "none" /\ ~listed /\ mAsyncCalls = <<>> /\ ~InCall
  /\ at["owner"] # "idle" => owner = "close"
  /\ at["async"] # "idle" => runPc = "call"
  /\ owner = "push" => ~listed /\ (mAsyncCalls # <<>> => ~Running)
  /\ owner = "gone" => runPc = "exit"
  /\ \A t \in Closers :
       /\ stopper[t] # "idle" => at[t] \in {"stopping", "destroying"}
       /\ t \in refs <=> at[t] \in {"stop", "stopping"}
       /\ at[t] \notin {"idle", "clear", "done"} => ~Early /\ owner # "push"
       /\ at[t] = "clear" => ~Running \/ (~listed /\ owner # "push")
  /\ owner \in {"join", "gone"} \/ at["owner"] = "done" => ~listed

\* The ring is whole while anybody holds it or its event thread runs; one thread
\* deletes it, member by member, and then nothing is left.
HeldInv ==
  /\ \A t \in Closers : Destroying(t) => ~Running /\ ~listed /\ refs = {}
  /\ \A t, u \in Closers : Destroying(t) /\ Destroying(u) => t = u
  /\ owner = "construct" =>
       held \in {{}, {"handle"}, {"handle", "port"}, Resource \ {"buffer"}, Resource}
  /\ owner = "unwind" => "buffer" \notin held
  /\ owner = "unwindPipe" => held \subseteq {"pipe"}
  /\ owner = "unwound" => held = {}
  /\ Running \/ owner = "push" \/ listed \/ refs # {} => held = Resource
  /\ \A t \in Closers :
       /\ at[t] = "unbind" => "buffer" \notin held
       /\ at[t] = "closePipe" => held \subseteq {"pipe"}
  /\ ~Early /\ owner # "push" /\ ~listed /\ refs = {} /\ ~Deleted => held = {}
\* The owner, but for its release(), preserves the invariant.
LEMMA OwnerInv ==
  ASSUME OrderInv, TypeInv, StopInv, WhereInv, HeldInv, 
         \/ Construct \/ ConstructFails \/ Unwind \/ StoreError \/ AddRing \/ PushRing
         \/ OwnerStop \/ OwnerTerminate \/ OwnerJoin
  PROVE  TypeInv' /\ StopInv' /\ WhereInv' /\ HeldInv'
  <1> USE ClosersAssumption DEF TypeInv, StopInv, StopHeard, WhereInv, HeldInv, Early, InCall,
             Destroying, Deleted, Running, Resource, Thread, Signals, Inside, context, release, channel,
             events, bounds, vars, AtPc, OwnerPc
  <1>1. CASE Construct
    <2>1. TypeInv'
      BY <1>1 DEF Construct, OpenHandle, BindPort, OpenPipe, MapBuffer, Acquire
    <2>2. StopInv'
      BY <1>1 DEF Construct, OpenHandle, BindPort, OpenPipe, MapBuffer, Acquire
    <2>3. WhereInv'
      BY <1>1 DEF Construct, OpenHandle, BindPort, OpenPipe, MapBuffer, Acquire
    <2>4. HeldInv'
      BY <1>1 DEF Construct, OpenHandle, BindPort, OpenPipe, MapBuffer, Acquire
    <2> QED
      BY <2>1, <2>2, <2>3, <2>4
  <1>2. CASE ConstructFails
    <2>1. TypeInv'
      BY <1>2 DEF ConstructFails
    <2>2. StopInv'
      BY <1>2 DEF ConstructFails
    <2>3. WhereInv'
      BY <1>2 DEF ConstructFails
    <2>4. HeldInv'
      BY <1>2 DEF ConstructFails
    <2> QED
      BY <2>1, <2>2, <2>3, <2>4
  <1>3. CASE Unwind
    <2>1. TypeInv'
      BY <1>3 DEF Unwind, ReleaseChannel, ReleasePipe, LetGo
    <2>2. StopInv'
      BY <1>3 DEF Unwind, ReleaseChannel, ReleasePipe, LetGo
    <2>3. WhereInv'
      BY <1>3 DEF Unwind, ReleaseChannel, ReleasePipe, LetGo
    <2>4. HeldInv'
      BY <1>3 DEF Unwind, ReleaseChannel, ReleasePipe, LetGo
    <2> QED
      BY <2>1, <2>2, <2>3, <2>4
  <1>4. CASE StoreError
    <2>1. TypeInv'
      BY <1>4 DEF StoreError, A!Call
    <2>2. StopInv'
      BY <1>4 DEF StoreError, A!Call
    <2>3. WhereInv'
      BY <1>4 DEF StoreError, A!Call
    <2>4. HeldInv'
      BY <1>4 DEF StoreError, A!Call
    <2> QED
      BY <2>1, <2>2, <2>3, <2>4
  <1>5. CASE AddRing
    <2>1. TypeInv'
      BY <1>5 DEF AddRing, Start
    <2>2. StopInv'
      BY <1>5 DEF AddRing, Start
    <2>3. WhereInv'
      BY <1>5 DEF AddRing, Start
    <2>4. HeldInv'
      BY <1>5 DEF AddRing, Start
    <2> QED
      BY <2>1, <2>2, <2>3, <2>4
  <1>6. CASE PushRing
    <2>1. TypeInv'
      BY <1>6 DEF PushRing
    <2>2. StopInv'
      BY <1>6 DEF PushRing
    <2>3. WhereInv'
      BY <1>6 DEF PushRing
    <2>4. HeldInv'
      BY <1>6 DEF PushRing
    <2> QED
      BY <2>1, <2>2, <2>3, <2>4
  <1>7. CASE OwnerStop
    <2>1. TypeInv'
      BY <1>7 DEF OwnerStop, Enter, Go
    <2>2. StopInv'
      BY <1>7 DEF OwnerStop, Enter, Go
    <2>3. WhereInv'
      BY <1>7 DEF OwnerStop, Enter, Go
    <2>4. HeldInv'
      BY <1>7 DEF OwnerStop, Enter, Go
    <2> QED
      BY <2>1, <2>2, <2>3, <2>4
  <1>8. CASE OwnerTerminate
    <2>1. TypeInv'
      BY <1>8 DEF OwnerTerminate, A!Terminate, Go
    <2>2. StopInv'
      BY <1>8 DEF OwnerTerminate, A!Terminate, Go
    <2>3. WhereInv'
      BY <1>8 DEF OwnerTerminate, A!Terminate, Go
    <2>4. HeldInv'
      BY <1>8 DEF OwnerTerminate, A!Terminate, Go
    <2> QED
      BY <2>1, <2>2, <2>3, <2>4
  <1>9. CASE OwnerJoin
    <2>1. TypeInv'
      BY <1>9 DEF OwnerJoin
    <2>2. StopInv'
      BY <1>9 DEF OwnerJoin
    <2>3. WhereInv'
      BY <1>9 DEF OwnerJoin
    <2>4. HeldInv'
      BY <1>9 DEF OwnerJoin
    <2> QED
      BY <2>1, <2>2, <2>3, <2>4
  <1> QED
    BY <1>1, <1>2, <1>3, <1>4, <1>5, <1>6, <1>7, <1>8, <1>9

\* A set that one element leaves empty holds no other.
LEMMA LastOne ==
  ASSUME NEW S, NEW x \in S, S \ {x} = {}
  PROVE  S = {x}
  OBVIOUS

\* release(), in either thread, preserves it.
LEMMA ReleaseInv ==
  ASSUME OrderInv, TypeInv, StopInv, WhereInv, HeldInv, NEW t \in Closers, Release(t)
  PROVE  TypeInv' /\ StopInv' /\ WhereInv' /\ HeldInv'
  <1> USE ClosersAssumption DEF TypeInv, StopInv, StopHeard, WhereInv, HeldInv, Early, InCall,
             Destroying, Deleted, Running, Resource, Thread, Signals, Inside, context, release, channel,
             events, bounds, vars, AtPc, OwnerPc
  <1>1. CASE Take(t)
    <2>1. TypeInv'
      <3>1. at' \in [Closers -> AtPc]
        BY <1>1 DEF Take, Go
      <3>2. alive' \in BOOLEAN
        <4>1. alive' = alive \/ alive' \in BOOLEAN
          BY <1>1 DEF Take
        <4> QED
          BY <4>1 DEF TypeInv
      <3>4. refs' \subseteq Closers
        <4>1. refs' = refs \/ refs' = refs \union {t}
          BY <1>1 DEF Take
        <4> QED
          BY <4>1
      <3>3. UNCHANGED <<held, thread, mStarted, joinable, pending, stopper, pipe, owner, listed>>
        BY <1>1 DEF Take
      <3> QED
        BY <3>1, <3>2, <3>3, <3>4
    <2>2. StopInv'
      BY <1>1 DEF Take, Go
    <2>3. WhereInv'
      BY <1>1 DEF Take, Go
    <2>4. HeldInv'
      BY <1>1 DEF Take, Go
    <2> QED
      BY <2>1, <2>2, <2>3, <2>4
  <1>2. CASE EnterStop(t)
    <2>1. TypeInv'
      BY <1>2 DEF EnterStop, StopEnter, In, Go
    <2>2. StopInv'
      BY <1>2 DEF EnterStop, StopEnter, In, Go
    <2>3. WhereInv'
      BY <1>2 DEF EnterStop, StopEnter, In, Go
    <2>4. HeldInv'
      BY <1>2 DEF EnterStop, StopEnter, In, Go
    <2> QED
      BY <2>1, <2>2, <2>3, <2>4
  <1>3. CASE StopRing(t) /\ Signal(t)
    <2>1. TypeInv'
      BY <1>3 DEF StopRing, Signal, In
    <2>2. StopInv'
      BY <1>3 DEF StopRing, Signal, In
    <2>3. WhereInv'
      BY <1>3 DEF StopRing, Signal, In
    <2>4. HeldInv'
      BY <1>3 DEF StopRing, Signal, In
    <2> QED
      BY <2>1, <2>2, <2>3, <2>4
  <1>4. CASE StopRing(t) /\ StopJoin(t)
    <2>1. TypeInv'
      BY <1>4 DEF StopRing, StopJoin, In
    <2>2. StopInv'
      BY <1>4 DEF StopRing, StopJoin, In
    <2>3. WhereInv'
      BY <1>4 DEF StopRing, StopJoin, In
    <2>4. HeldInv'
      BY <1>4 DEF StopRing, StopJoin, In
    <2> QED
      BY <2>1, <2>2, <2>3, <2>4
  <1>5. CASE StopRing(t) /\ Joined(t)
    <2>1. TypeInv'
      BY <1>5 DEF StopRing, Joined, In
    <2>2. StopInv'
      BY <1>5 DEF StopRing, Joined, In
    <2>3. WhereInv'
      BY <1>5 DEF StopRing, Joined, In
    <2>4. HeldInv'
      BY <1>5 DEF StopRing, Joined, In
    <2> QED
      BY <2>1, <2>2, <2>3, <2>4
  <1>6. CASE StopRing(t) /\ StopReturn(t)
    <2>1. TypeInv'
      BY <1>6 DEF StopRing, StopReturn, In
    <2>2. StopInv'
      BY <1>6 DEF StopRing, StopReturn, In
    <2>3. WhereInv'
      BY <1>6 DEF StopRing, StopReturn, In
    <2>4. HeldInv'
      BY <1>6 DEF StopRing, StopReturn, In
    <2> QED
      BY <2>1, <2>2, <2>3, <2>4
  <1>7. CASE Stopped(t)
    <2>1. TypeInv'
      BY <1>7 DEF Stopped, In, Go
    <2>2. StopInv'
      BY <1>7 DEF Stopped, In, Go
    <2>3. WhereInv'
      BY <1>7 DEF Stopped, In, Go
    <2>4. HeldInv'
      <3>1. t \in refs /\ ~Running /\ \A u \in Closers : ~Destroying(u)
        BY <1>7 DEF Stopped
      <3>2. /\ UNCHANGED <<held, thread, listed, owner>> /\ refs' = refs \ {t}
            /\ \A u \in Closers : u # t => at'[u] = at[u]
        BY <1>7 DEF Stopped, Go
      <3>3. at'[t] = IF listed \/ refs # {t} THEN "clear" ELSE "destroy"
        BY <1>7 DEF Stopped, Go
      <3>4. held = Resource /\ ~Early /\ owner # "push"
        BY <1>7, <3>1 DEF Stopped
      <3>5. \A u \in Closers : Destroying(u)' => u = t /\ ~listed /\ refs' = {}
        BY <3>1, <3>2, <3>3
      <3>6. ~listed /\ refs' = {} => Deleted'
        <4>1. refs' = {} => refs = {t}
          BY <3>1, <3>2, LastOne
        <4>2. ~listed /\ refs' = {} => at'[t] = "destroy"
          BY <3>3, <4>1
        <4> QED
          BY <4>2
      <3> QED
        BY <3>1, <3>2, <3>3, <3>4, <3>5, <3>6
    <2> QED
      BY <2>1, <2>2, <2>3, <2>4
  <1>8. CASE Clear(t)
    <2>1. TypeInv'
      BY <1>8 DEF Clear, Go
    <2>2. StopInv'
      BY <1>8 DEF Clear, Go
    <2>3. WhereInv'
      BY <1>8 DEF Clear, Go
    <2>4. HeldInv'
      <3>1. CASE listed /\ refs = {}
        BY <1>8, <3>1 DEF Clear, Go
      <3>2. CASE ~(listed /\ refs = {})
        BY <1>8, <3>2 DEF Clear, Go
      <3> QED
        BY <3>1, <3>2
    <2> QED
      BY <2>1, <2>2, <2>3, <2>4
  <1>9. CASE Destroyed(t)
    <2>1. TypeInv'
      BY <1>9 DEF Destroyed, In, Go
    <2>2. StopInv'
      BY <1>9 DEF Destroyed, In, Go
    <2>3. WhereInv'
      BY <1>9 DEF Destroyed, In, Go
    <2>4. HeldInv'
      BY <1>9 DEF Destroyed, In, Go
    <2> QED
      BY <2>1, <2>2, <2>3, <2>4
  <1>10. CASE Free(t)
    <2>1. TypeInv'
      <3>1. at' \in [Closers -> AtPc]
        BY <1>10 DEF Free, Go
      <3>2. held' \subseteq Resource
        BY <1>10 DEF Free, ReleaseBuffer, ReleaseChannel, ReleasePipe, LetGo
      <3>3. UNCHANGED <<alive, refs, thread, mStarted, joinable, pending, stopper, pipe, owner, listed>>
        BY <1>10 DEF Free, ReleaseBuffer, ReleaseChannel, ReleasePipe, LetGo
      <3> QED
        BY <3>1, <3>2, <3>3
    <2>2. StopInv'
      BY <1>10 DEF Free, ReleaseBuffer, ReleaseChannel, ReleasePipe, LetGo, Go
    <2>3. WhereInv'
      BY <1>10 DEF Free, ReleaseBuffer, ReleaseChannel, ReleasePipe, LetGo, Go
    <2>4. HeldInv'
      <3>1. /\ Destroying(t) /\ ~Running /\ ~listed /\ refs = {} /\ ~Early /\ owner # "push"
            /\ \A u \in Closers : Destroying(u) => u = t
        BY <1>10 DEF Free
      <3>2. UNCHANGED <<thread, listed, refs, owner>> /\ \A u \in Closers : u # t => at'[u] = at[u]
        BY <1>10 DEF Free, ReleaseBuffer, ReleaseChannel, ReleasePipe, LetGo, Go
      <3>3. \/ at'[t] = "unbind" /\ "buffer" \notin held'
            \/ at'[t] = "closePipe" /\ held' \subseteq {"pipe"}
            \/ at'[t] = "done" /\ held' = {}
        <4>1. CASE at[t] = "unmap"
          BY <1>10, <4>1 DEF Free, ReleaseBuffer, LetGo, Go
        <4>2. CASE at[t] = "unbind"
          <5>1. at'[t] = "closePipe" /\ held' = held \ {"handle", "port"}
            BY <1>10, <4>2 DEF Free, ReleaseChannel, LetGo, Go
          <5>2. held \subseteq {"handle", "port", "pipe"}
            BY <4>2
          <5>3. held' \subseteq {"pipe"}
            BY <5>1, <5>2
          <5> QED
            BY <5>1, <5>3
        <4>3. CASE at[t] = "closePipe"
          BY <1>10, <4>3 DEF Free, ReleasePipe, LetGo, Go
        <4> QED
          BY <1>10, <4>1, <4>2, <4>3 DEF Free
      <3> QED
        BY <3>1, <3>2, <3>3
    <2> QED
      BY <2>1, <2>2, <2>3, <2>4
  <1> QED
    BY <1>1, <1>2, <1>3, <1>4, <1>5, <1>6, <1>7, <1>8, <1>9, <1>10 DEF Release, StopRing, Stop

\* The thread of mAsyncContext preserves it.
LEMMA AsyncInv ==
  ASSUME OrderInv, TypeInv, StopInv, WhereInv, HeldInv, 
         AsyncThread, ~Release("async")
  PROVE  TypeInv' /\ StopInv' /\ WhereInv' /\ HeldInv'
  <1> USE ClosersAssumption DEF TypeInv, StopInv, StopHeard, WhereInv, HeldInv, Early, InCall,
             Destroying, Deleted, Running, Resource, Thread, Signals, Inside, context, release, channel,
             events, bounds, vars, AtPc, OwnerPc
  <1>1. CASE A!Lock /\ UNCHANGED <<vars, owner, release>>
    <2>1. TypeInv'
      BY <1>1 DEF A!Lock, A!Goto
    <2>2. StopInv'
      BY <1>1 DEF A!Lock, A!Goto
    <2>3. WhereInv'
      BY <1>1 DEF A!Lock, A!Goto
    <2>4. HeldInv'
      BY <1>1 DEF A!Lock, A!Goto
    <2> QED
      BY <2>1, <2>2, <2>3, <2>4
  <1>2. CASE A!Test /\ UNCHANGED <<vars, owner, release>>
    <2>1. TypeInv'
      BY <1>2 DEF A!Test, A!Goto
    <2>2. StopInv'
      BY <1>2 DEF A!Test, A!Goto
    <2>3. WhereInv'
      BY <1>2 DEF A!Test, A!Goto
    <2>4. HeldInv'
      BY <1>2 DEF A!Test, A!Goto
    <2> QED
      BY <2>1, <2>2, <2>3, <2>4
  <1>3. CASE A!Wake /\ UNCHANGED <<vars, owner, release>>
    <2>1. TypeInv'
      BY <1>3 DEF A!Wake, A!Goto
    <2>2. StopInv'
      BY <1>3 DEF A!Wake, A!Goto
    <2>3. WhereInv'
      BY <1>3 DEF A!Wake, A!Goto
    <2>4. HeldInv'
      BY <1>3 DEF A!Wake, A!Goto
    <2> QED
      BY <2>1, <2>2, <2>3, <2>4
  <1>4. CASE A!Drain /\ UNCHANGED <<vars, owner, release>>
    <2>1. TypeInv'
      BY <1>4 DEF A!Drain, A!Goto
    <2>2. StopInv'
      BY <1>4 DEF A!Drain, A!Goto
    <2>3. WhereInv'
      BY <1>4 DEF A!Drain, A!Goto
    <2>4. HeldInv'
      BY <1>4 DEF A!Drain, A!Goto
    <2> QED
      BY <2>1, <2>2, <2>3, <2>4
  <1>5. CASE A!Pop /\ UNCHANGED <<vars, owner, release>>
    <2>1. TypeInv'
      BY <1>5 DEF A!Pop, A!Goto
    <2>2. StopInv'
      BY <1>5 DEF A!Pop, A!Goto
    <2>3. WhereInv'
      BY <1>5 DEF A!Pop, A!Goto
    <2>4. HeldInv'
      BY <1>5 DEF A!Pop, A!Goto
    <2> QED
      BY <2>1, <2>2, <2>3, <2>4
  <1>6. CASE runPc = "call" /\ at["async"] = "idle" /\ Enter("async") /\ UNCHANGED <<context, vars, owner>>
    <2>1. TypeInv'
      BY <1>6 DEF Enter, Go
    <2>2. StopInv'
      BY <1>6 DEF Enter, Go
    <2>3. WhereInv'
      <3>1. mAsyncCalls # <<>>
        BY <1>6 DEF OrderInv
      <3> QED
        BY <1>6, <3>1 DEF Enter, Go
    <2>4. HeldInv'
      BY <1>6 DEF Enter, Go
    <2> QED
      BY <2>1, <2>2, <2>3, <2>4
  <1>7. CASE /\ at["async"] = "done" /\ A!CallReturns /\ Go("async", "idle")
             /\ UNCHANGED <<vars, owner, listed, refs>>
    <2>1. TypeInv'
      BY <1>7 DEF A!CallReturns, Go
    <2>2. StopInv'
      BY <1>7 DEF A!CallReturns, Go
    <2>3. WhereInv'
      BY <1>7 DEF A!CallReturns, Go
    <2>4. HeldInv'
      BY <1>7 DEF A!CallReturns, Go
    <2> QED
      BY <2>1, <2>2, <2>3, <2>4
  <1> QED
    BY <1>1, <1>2, <1>3, <1>4, <1>5, <1>6, <1>7 DEF AsyncThread, A!Run

\* The event thread and the frontend preserve it.
LEMMA EventInv ==
  ASSUME OrderInv, TypeInv, StopInv, WhereInv, HeldInv, 
         \/ RingThread
         \/ (Notify \/ PollInterrupted \/ Fail) /\ UNCHANGED <<context, owner, release>>
  PROVE  TypeInv' /\ StopInv' /\ WhereInv' /\ HeldInv'
  <1> USE ClosersAssumption DEF TypeInv, StopInv, StopHeard, WhereInv, HeldInv, Early, InCall,
             Destroying, Deleted, Running, Resource, Thread, Signals, Inside, context, release, channel,
             events, bounds, vars, AtPc, OwnerPc
  <1>1. CASE PollPipe /\ UNCHANGED <<context, owner, release>>
    <2>1. TypeInv'
      BY <1>1 DEF PollPipe, Move
    <2>2. StopInv'
      BY <1>1 DEF PollPipe, Move
    <2>3. WhereInv'
      BY <1>1 DEF PollPipe, Move
    <2>4. HeldInv'
      BY <1>1 DEF PollPipe, Move
    <2> QED
      BY <2>1, <2>2, <2>3, <2>4
  <1>2. CASE PollEvent /\ UNCHANGED <<context, owner, release>>
    <2>1. TypeInv'
      BY <1>2 DEF PollEvent, Move
    <2>2. StopInv'
      BY <1>2 DEF PollEvent, Move
    <2>3. WhereInv'
      BY <1>2 DEF PollEvent, Move
    <2>4. HeldInv'
      BY <1>2 DEF PollEvent, Move
    <2> QED
      BY <2>1, <2>2, <2>3, <2>4
  <1>3. CASE ReadPort /\ UNCHANGED <<context, owner, release>>
    <2>1. TypeInv'
      BY <1>3 DEF ReadPort, Move
    <2>2. StopInv'
      BY <1>3 DEF ReadPort, Move
    <2>3. WhereInv'
      BY <1>3 DEF ReadPort, Move
    <2>4. HeldInv'
      BY <1>3 DEF ReadPort, Move
    <2> QED
      BY <2>1, <2>2, <2>3, <2>4
  <1>4. CASE Unmask /\ UNCHANGED <<context, owner, release>>
    <2>1. TypeInv'
      BY <1>4 DEF Unmask, Move
    <2>2. StopInv'
      BY <1>4 DEF Unmask, Move
    <2>3. WhereInv'
      BY <1>4 DEF Unmask, Move
    <2>4. HeldInv'
      BY <1>4 DEF Unmask, Move
    <2> QED
      BY <2>1, <2>2, <2>3, <2>4
  <1>5. CASE Callback /\ UNCHANGED <<context, owner, release>>
    <2>1. TypeInv'
      BY <1>5 DEF Callback, Move
    <2>2. StopInv'
      BY <1>5 DEF Callback, Move
    <2>3. WhereInv'
      BY <1>5 DEF Callback, Move
    <2>4. HeldInv'
      BY <1>5 DEF Callback, Move
    <2> QED
      BY <2>1, <2>2, <2>3, <2>4
  <1>6. CASE RingError
    <2>1. TypeInv'
      BY <1>6 DEF RingError, Reported, Move, A!Call
    <2>2. StopInv'
      BY <1>6 DEF RingError, Reported, Move, A!Call
    <2>3. WhereInv'
      BY <1>6 DEF RingError, Reported, Move, A!Call
    <2>4. HeldInv'
      BY <1>6 DEF RingError, Reported, Move, A!Call
    <2> QED
      BY <2>1, <2>2, <2>3, <2>4
  <1>7. CASE Notify /\ UNCHANGED <<context, owner, release>>
    <2>1. TypeInv'
      BY <1>7 DEF Notify
    <2>2. StopInv'
      BY <1>7 DEF Notify
    <2>3. WhereInv'
      BY <1>7 DEF Notify
    <2>4. HeldInv'
      BY <1>7 DEF Notify
    <2> QED
      BY <2>1, <2>2, <2>3, <2>4
  <1>8. CASE PollInterrupted /\ UNCHANGED <<context, owner, release>>
    <2>1. TypeInv'
      BY <1>8 DEF PollInterrupted
    <2>2. StopInv'
      BY <1>8 DEF PollInterrupted
    <2>3. WhereInv'
      BY <1>8 DEF PollInterrupted
    <2>4. HeldInv'
      BY <1>8 DEF PollInterrupted
    <2> QED
      BY <2>1, <2>2, <2>3, <2>4
  <1>9. CASE Fail /\ UNCHANGED <<context, owner, release>>
    <2>1. TypeInv'
      BY <1>9 DEF Fail
    <2>2. StopInv'
      BY <1>9 DEF Fail
    <2>3. WhereInv'
      BY <1>9 DEF Fail
    <2>4. HeldInv'
      BY <1>9 DEF Fail
    <2> QED
      BY <2>1, <2>2, <2>3, <2>4
  <1> QED
    BY <1>1, <1>2, <1>3, <1>4, <1>5, <1>6, <1>7, <1>8, <1>9 DEF RingThread, EventThread

-----------------------------------------------------------------------------
(* The theorems *)

IInv == OrderInv /\ TypeInv /\ StopInv /\ WhereInv /\ HeldInv

\* A ring not yet made, and nothing posted, satisfy it.
LEMMA InitInv == ASSUME RingInit PROVE IInv
  <1> USE ClosersAssumption DEF RingInit, Init, A!Init, Early, Running, InCall
  <1>1. OrderInv
    BY DEF OrderInv, A!Taken, A!RunPc
  <1>2. TypeInv
    BY DEF TypeInv, Thread, AtPc, OwnerPc
  <1>3. StopInv
    BY DEF StopInv, StopHeard, Signals, Inside
  <1>4. WhereInv
    BY DEF WhereInv
  <1>5. HeldInv
    BY DEF HeldInv, Destroying
  <1> QED
    BY <1>1, <1>2, <1>3, <1>4, <1>5 DEF IInv

\* The list changes in call() and run() alone.
LEMMA OrderNext == ASSUME OrderInv, [RingNext]_allVars PROVE OrderInv'
  <1>1. CASE UNCHANGED context
    BY <1>1 DEF context, OrderInv, InCall, A!Taken
  <1>2. CASE OwnerTerminate
    BY <1>2 DEF OwnerTerminate, A!Terminate, OrderInv, InCall, A!Taken
  <1>3. CASE \E c \in Post : A!Call(c)
    BY <1>3, CallOrder
  <1>4. CASE A!Run \/ A!CallReturns
    BY <1>4, RunOrder
  <1>5. ASSUME NEW t \in Closers, Release(t)
        PROVE  UNCHANGED context
    BY <1>5 DEF Release, Take, EnterStop, StopRing, Stopped, Clear, Destroyed, Free
  <1>6. UNCHANGED context \/ OwnerTerminate \/ (\E c \in Post : A!Call(c)) \/ A!Run \/ A!CallReturns
    BY <1>5, ClosersAssumption
       DEF RingNext, OwnerThread, AsyncThread, RingThread, World, Construct, ConstructFails, Unwind,
           StoreError, AddRing, PushRing, OwnerStop, OwnerJoin, RingError, allVars, Post
  <1> QED
    BY <1>1, <1>2, <1>3, <1>4, <1>6

\* Every step preserves the invariant.
LEMMA NextInv == ASSUME IInv, [RingNext]_allVars PROVE IInv'
  <1>1. CASE UNCHANGED allVars
    BY <1>1 DEF allVars, context, release, vars, channel, events, bounds, IInv, OrderInv,
        TypeInv, StopInv, StopHeard,
                WhereInv, HeldInv, Early, InCall, Destroying, Deleted, Running, Signals, Inside,
                A!Taken
  <1>2. CASE RingNext /\ ~UNCHANGED allVars
    <2>1. \/ \E t \in Closers : Release(t)
          \/ Construct \/ ConstructFails \/ Unwind \/ StoreError \/ AddRing \/ PushRing
          \/ OwnerStop \/ OwnerTerminate \/ OwnerJoin
          \/ AsyncThread /\ ~Release("async")
          \/ RingThread
          \/ (Notify \/ PollInterrupted \/ Fail) /\ UNCHANGED <<context, owner, release>>
      BY <1>2, ClosersAssumption DEF RingNext, OwnerThread, AsyncThread, World
    <2> QED
      BY <2>1, OrderNext, OwnerInv, ReleaseInv, AsyncInv, EventInv DEF IInv
  <1> QED
    BY <1>1, <1>2

\* IInv is an invariant, also of the outcomes of what is undefined when the two
\* threads meet that the process survives.
THEOREM Invariance == RingSpec => []IInv
  <1>1. RingInit => IInv
    BY InitInv
  <1>2. IInv /\ [RingNext]_allVars => IInv'
    BY NextInv
  <1> QED
    BY <1>1, <1>2, PTL DEF RingSpec

\* Every variable always has its type: the pipe holds no more bytes than there
\* are threads that stop the ring.
THEOREM TypeCorrect == RingSpec => []RingTypeOK
  <1>1. IInv => RingTypeOK
    <2> SUFFICES ASSUME IInv PROVE RingTypeOK
      OBVIOUS
    <2>1. Cardinality(Closers) = 2
      <3>1. IsFiniteSet({"owner"}) /\ Cardinality({"owner"}) = 1
        BY FS_Singleton
      <3>2. Closers = {"owner"} \union {"async"} /\ "async" \notin {"owner"}
        BY ClosersAssumption
      <3> QED
        BY <3>1, <3>2, FS_AddElement
    <2>2. pipe \in 0..2 * Cardinality(Closers)
      BY <2>1 DEF IInv, TypeInv, StopInv, Signals, Inside
    <2> QED
      BY <2>2 DEF IInv, TypeInv, OrderInv, Post, AtPc, OwnerPc, RingTypeOK, TypeOK
  <1> QED
    BY <1>1, Invariance, PTL

\* No event thread runs in a ring that is being deleted, nor without its channel
\* and its page: whichever of the two closing threads lets go of the ring last,
\* stop() has joined the event thread before.
THEOREM CallbackSafe == RingSpec => []CallbackHasRing
  <1>1. IInv => CallbackHasRing
    BY DEF IInv, HeldInv, Destroying, Deleted, CallbackHasRing
  <1> QED
    BY <1>1, Invariance, PTL

\* What a ring has opened is let go of, when its constructor fails as when it is
\* deleted, and stop() leaves no ring.
THEOREM NoLeak == RingSpec => []NothingLeaks
  <1>1. IInv => NothingLeaks
    BY ClosersAssumption DEF IInv, TypeInv, WhereInv, HeldInv, Early, Destroying, Deleted,
        NothingLeaks
  <1> QED
    BY <1>1, Invariance, PTL

\* Whoever posts while the thread of mAsyncContext runs what was posted: nothing
\* is lost, repeated or reordered.
THEOREM InOrder == RingSpec => []CallsInOrder
  <1>1. IInv => CallsInOrder
    <2> SUFFICES ASSUME OrderInv PROVE A!CallsInOrder
      BY DEF IInv, CallsInOrder
    <2>1. /\ mAsyncCalls \in Seq(Post) /\ posted \in Seq(Post) /\ ran \in Seq(Post)
          /\ Len(mAsyncCalls) \in Nat /\ Len(posted) \in Nat /\ Len(ran) \in Nat
      BY DEF OrderInv
    <2>2. A!Taken \in 0..Len(posted) /\ Len(ran) <= Len(posted)
      BY <2>1 DEF OrderInv, InCall, A!Taken
    <2>3. mAsyncCalls = SubSeq(posted, A!Taken + 1, Len(posted))
      BY <2>1, <2>2 DEF OrderInv
    <2>4. ran = SubSeq(posted, 1, Len(ran))
      BY <2>1, <2>2 DEF OrderInv
    <2> QED
      BY <2>2, <2>3, <2>4 DEF A!CallsInOrder
  <1> QED
    BY <1>1, Invariance, PTL

\* A stop() of the ring's channel that waits for the event thread, in either
\* of the closing threads, waits for one that will read its byte or has ended.
THEOREM StopIsHeard == RingSpec => []StopHeard
  <1>1. IInv => StopHeard
    BY DEF IInv, StopInv
  <1> QED
    BY <1>1, Invariance, PTL
=============================================================================
