----------------------------- MODULE RingErrors -----------------------------
(***************************************************************************)
(* A ring buffer that fails while its handler is stopped: the event thread *)
(* of an EventChannel posts close() to an AsyncContext, whose thread then  *)
(* stops and deletes the ring beside the owner's own close().  "owner" is  *)
(* whoever binds, and then stops, the handler: first its watch thread,     *)
(* which has been joined when the client's thread goes into close().  One  *)
(* ring, bound once; FrontendHandler has several, and the states.          *)
(***************************************************************************)
EXTENDS EventChannel, Sequences

ASSUME ClosersAssumption == Closers = {"owner", "async"}

VARIABLES
  mAsyncCalls, mTerminate, locked, runPc, posted, ran,   \* of mAsyncContext
  owner,       \* where the owner is
  listed,      \* mRingBuffers holds the ring
  refs,        \* the threads whose loop variable holds it
  at           \* where each of Closers is in release()

A == INSTANCE AsyncContext WITH Calls <- {"store", "ring"}

context == <<mAsyncCalls, mTerminate, locked, runPc, posted, ran>>
release == <<listed, refs, at>>
allVars == <<context, vars, owner, release>>

RingInit ==
  /\ A!Init /\ Init
  /\ owner = "construct" /\ listed = FALSE /\ refs = {}
  /\ at = [t \in Closers |-> "idle"]
-----------------------------------------------------------------------------
(* onBind(): the ring is made, started, and only then put in the vector *)

Construct ==
  /\ owner = "construct"
  /\ OpenHandle \/ BindPort \/ OpenPipe \/ MapBuffer
  /\ UNCHANGED <<context, owner, release>>

ConstructFails ==
  /\ owner = "construct" /\ held # Resource
  /\ owner' = "unwind"
  /\ UNCHANGED <<context, vars, release>>

\* What was opened is let go of: the channel, then the PollFd it owns.
Unwind ==
  /\ \/ owner = "unwind" /\ ReleaseChannel /\ owner' = "unwindPipe"
     \/ owner = "unwindPipe" /\ ReleasePipe /\ owner' = "unwound"
  /\ UNCHANGED <<context, release>>

\* onBind()'s exception, or another of the watch thread, ends that thread
\* and posts close().
StoreError ==
  /\ owner \in {"unwound", "up"}
  /\ owner' = "watchDead"
  /\ A!Call("store")
  /\ UNCHANGED <<vars, release>>

AddRing ==
  /\ owner = "construct" /\ held = Resource
  /\ Start
  /\ owner' = "push"
  /\ UNCHANGED <<context, release>>

PushRing ==
  /\ owner = "push"
  /\ listed' = TRUE /\ owner' = "up"
  /\ UNCHANGED <<context, vars, refs, at>>
-----------------------------------------------------------------------------
(* release(), by the owner and by the thread of mAsyncContext *)

Go(t, l) == at' = [at EXCEPT ![t] = l]
InVector(t) == \E u \in Closers \ {t} : at[u] \in {"take", "clear"}

\* The loop over mRingBuffers begins.
Enter(t) == Go(t, IF listed THEN "take" ELSE "clear") /\ UNCHANGED <<listed, refs>>

\* Its variable is a copy of the shared pointer.  If the other thread has
\* cleared the vector since, the copy is undefined: a crash, or nothing.
Take(t) ==
  /\ at[t] = "take"
  /\ IF listed
       THEN Go(t, "stop") /\ refs' = refs \union {t} /\ UNCHANGED alive
       ELSE Go(t, "clear") /\ alive' \in BOOLEAN /\ UNCHANGED refs
  /\ UNCHANGED <<context, owner, listed, held, mStarted, joinable, stopper, events, bounds>>

\* stop(), by release() and by the destructor
EnterStop(t) ==
  /\ \/ at[t] = "stop" /\ Go(t, "stopping")
     \/ at[t] = "destroy" /\ Go(t, "destroying")
  /\ StopEnter(t)
  /\ UNCHANGED <<context, owner, listed, refs>>

StopRing(t) == Stop(t) /\ UNCHANGED <<context, owner, release>>

\* The loop variable goes; with it the ring, if nobody else holds it.
Stopped(t) ==
  /\ at[t] = "stopping" /\ stopper[t] = "stopped"
  /\ refs' = refs \ {t}
  /\ Go(t, IF listed \/ refs # {t} THEN "clear" ELSE "destroy")
  /\ In(t, "idle")
  /\ UNCHANGED <<context, owner, listed, held, mStarted, joinable, alive, events, bounds>>

\* mRingBuffers.clear(), undefined if the other thread is in the vector
Clear(t) ==
  /\ at[t] = "clear"
  /\ listed' = FALSE
  /\ Go(t, IF listed /\ refs = {} THEN "destroy" ELSE "done")
  /\ alive' \in IF listed /\ InVector(t) THEN BOOLEAN ELSE {TRUE}
  /\ UNCHANGED <<context, owner, refs, held, mStarted, joinable, stopper, events, bounds>>

\* The destructor has stopped the channel: the members go.
Destroyed(t) ==
  /\ at[t] = "destroying" /\ stopper[t] = "stopped"
  /\ Go(t, "unmap") /\ In(t, "idle")
  /\ UNCHANGED <<context, owner, listed, refs, held, mStarted, joinable, alive, events, bounds>>

Free(t) ==
  /\ \/ at[t] = "unmap" /\ ReleaseBuffer /\ Go(t, "unbind")
     \/ at[t] = "unbind" /\ ReleaseChannel /\ Go(t, "closePipe")
     \/ at[t] = "closePipe" /\ ReleasePipe /\ Go(t, "done")
  /\ UNCHANGED <<context, owner, listed, refs>>

Release(t) ==
  Take(t) \/ EnterStop(t) \/ StopRing(t) \/ Stopped(t) \/ Clear(t) \/ Destroyed(t) \/ Free(t)
-----------------------------------------------------------------------------
(* The threads *)

\* stop(): close(), then mAsyncContext.stop()
OwnerStop ==
  /\ owner \in {"up", "watchDead"}
  /\ owner' = "close"
  /\ Enter("owner")
  /\ UNCHANGED <<context, vars>>

OwnerTerminate ==
  /\ owner = "close" /\ at["owner"] = "done"
  /\ A!Terminate
  /\ owner' = "join" /\ Go("owner", "idle")
  /\ UNCHANGED <<vars, listed, refs>>

OwnerJoin ==
  /\ owner = "join" /\ runPc = "exit"
  /\ owner' = "gone"
  /\ UNCHANGED <<context, vars, release>>

\* The body of a posted call is close(), whoever posted it.
AsyncThread ==
  \/ A!Run /\ UNCHANGED <<vars, owner, release>>
  \/ runPc = "call" /\ at["async"] = "idle" /\ Enter("async") /\ UNCHANGED <<context, vars, owner>>
  \/ Release("async")
  \/ at["async"] = "done" /\ A!CallReturns /\ Go("async", "idle")
       /\ UNCHANGED <<vars, owner, listed, refs>>

\* Mutant: started before its error callback is set, an error is only logged
LogError == Reported /\ UNCHANGED <<context, owner, release>>

\* onError()
RingError == Reported /\ A!Call("ring") /\ UNCHANGED <<owner, release>>

RingThread == \/ EventThread /\ UNCHANGED <<context, owner, release>>
              \/ RingError

OwnerThread ==
  \/ Construct \/ Unwind \/ AddRing \/ PushRing
  \/ owner = "unwound" /\ StoreError
  \/ Release("owner") \/ OwnerTerminate \/ OwnerJoin

World ==
  \/ ConstructFails
  \/ StoreError
  \/ OwnerStop
  \/ (Notify \/ PollInterrupted \/ Fail) /\ UNCHANGED <<context, owner, release>>

\* A thread that a signal sent into xenevtchn_pending() is there until the
\* next notification.
Blocked == thread = "read" /\ ~pending

RingNext ==
  \/ alive /\ (OwnerThread \/ AsyncThread \/ RingThread \/ World)
  \/ (~alive \/ owner = "gone" \/ Blocked) /\ UNCHANGED allVars

\* The threads are scheduled; nobody has to stop the handler.
RingSpec ==
  /\ RingInit /\ [][RingNext]_allVars
  /\ WF_allVars(alive /\ OwnerThread)
  /\ WF_allVars(alive /\ AsyncThread)
  /\ WF_allVars(alive /\ RingThread)
-----------------------------------------------------------------------------
(* Properties *)

RingTypeOK ==
  /\ TypeOK
  /\ mAsyncCalls \in Seq({"store", "ring"}) /\ runPc \in A!RunPc
  /\ owner \in {"construct", "unwind", "unwindPipe", "unwound", "push", "up", "watchDead", "close", "join", "gone"}
  /\ listed \in BOOLEAN /\ refs \subseteq Closers
  /\ at \in [Closers -> {"idle", "take", "stop", "stopping", "clear", "destroy", "destroying",
                         "unmap", "unbind", "closePipe", "done"}]

Deleted == \E t \in Closers : at[t] \in {"destroy", "destroying", "unmap", "unbind", "closePipe"}

\* release() (FrontendHandlerBase.cpp:265): no event thread is left when the
\* ring is deleted, and none has its channel or its page taken away, whoever
\* of the two threads lets go of the ring last.
CallbackHasRing == alive /\ Running => held = Resource /\ ~Deleted

\* Of a ring that could not be made, and of one that was deleted by either
\* thread, no handle, port, pipe or mapping is left; and stop() leaves no ring.
NothingLeaks ==
  /\ owner \in {"watchDead", "gone"} /\ ~listed /\ alive /\ refs = {} /\ ~Deleted => held = {}
  /\ owner = "gone" => ~listed /\ refs = {} /\ ~Deleted

\* call() of the watch thread and of the event thread, which post their errors,
\* beside the thread that runs the calls
CallsInOrder == A!CallsInOrder

\* stop() returns, whatever failed when; but for the two threads in one
\* XenEvtchn::stop(), and for a thread that poll() sent to read nothing.
StopReturns == owner = "close" ~> owner = "gone" \/ ~alive \/ Blocked

\* A ring that fails once the vector holds it is let go of.
ErrorCloses == thread = "error" /\ listed ~> ~listed \/ ~alive

\* A notification is read, also one that comes while the callback runs, and
\* however poll() was interrupted before.
NotificationServed == pending /\ Running ~> thread \in {"unmask", "error"} \/ ~Running \/ ~alive
=============================================================================
