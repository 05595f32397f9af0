--------------------------- MODULE FrontendHandler ---------------------------
(***************************************************************************)
(* FrontendHandlerBase: the Xen bus state machine of one backend device.   *)
(*                                                                         *)
(* Four parties touch it.  The owner thread constructs the handler, calls  *)
(* start() and stop().  The watch thread of mXenStore runs the callbacks   *)
(* frontendStateChanged() and backendStateChanged() under mMutex.  The     *)
(* thread of mAsyncContext runs the close() that onError() posts, without  *)
(* mMutex.  The event thread of each ring buffer may fail and call         *)
(* onError().  Outside are the frontend and the toolstack, which write the *)
(* two "state" nodes of the Xen store.                                     *)
(*                                                                         *)
(* close() and setBackendState() are routines any of the three threads may *)
(* be in: pc[t] is where thread t is, arg[t] and ret[t] the argument and   *)
(* the return point of its setBackendState(), after[t] and done[t] those   *)
(* of its close().                                                         *)
(***************************************************************************)
EXTENDS Xenbus, Naturals, Sequences

CONSTANTS
  Rings,               \* the ring buffer objects (event channels) there are
  RingsPerBind,        \* how many of them onBind() adds
  InitialFrontend,     \* what the frontend's node may hold at first
  InitialBackend,      \* what the backend's node may hold at first
  FrontendWrites,      \* what the frontend may write to its node
  ToolstackWrites,     \* what the toolstack may write to the backend's node
  MaxFrontendWrites,   \* bound: writes of the frontend
  MaxToolstackWrites,  \* bound: writes of the toolstack
  MaxRingErrors,       \* bound: event threads that fail
  MaxInterrupts,       \* bound: poll() interrupted by a signal
  MaxFaults            \* bound: calls of the store, of poll(), and binds that fail

ASSUME HandlerAssumption ==
  /\ RingsPerBind \in Nat
  /\ InitialFrontend \subseteq NodeValue
  /\ InitialBackend \subseteq NodeValue
  /\ FrontendWrites \subseteq NodeValue
  /\ ToolstackWrites \subseteq NodeValue
  /\ MaxFrontendWrites \in Nat
  /\ MaxToolstackWrites \in Nat
  /\ MaxRingErrors \in Nat
  /\ MaxInterrupts \in Nat
  /\ MaxFaults \in Nat

Thread == {"owner", "watch", "async"}

VARIABLES
  xsFe, xsBe,          \* the store: nodes mFeStatePath and mBeStatePath
  watching, watchQ,    \* the watches are registered; their pending events
  mBackendState, mFrontendState,
  mMutex,              \* "none" or the thread that holds it
  mRingBuffers, evt,   \* the vector; the event thread of each ring object
  toBind,              \* rings the running onBind() has yet to add
  asyncCalls,          \* length of mAsyncContext.mAsyncCalls
  mTerminate,          \* mAsyncContext.mTerminate
  alive,               \* FALSE after std::terminate
  pc, arg, ret, after, done,
  feWrites, beWrites, ringErrors, interrupts, faults,
  misread              \* a node that is there was taken for gone

store  == <<xsFe, xsBe, watching, watchQ>>
state  == <<mBackendState, mFrontendState>>
rings  == <<mRingBuffers, evt, toBind>>
calls  == <<asyncCalls, mTerminate, alive>>
frames == <<arg, ret, after, done>>
bounds == <<feWrites, beWrites, ringErrors, interrupts, faults, misread>>
vars   == <<store, state, mMutex, rings, calls, pc, frames, bounds>>
-----------------------------------------------------------------------------
(* Control of the threads *)

Routine == {"close", "release", "clear", "reopen",
            "set", "assign", "exist", "write"}
OwnerPc == {"new", "readInit", "constructed", "up", "joinWatch", "terminate",
            "joinAsync", "stopped", "threw"}
WatchPc == {"off", "poll", "read", "checkFe", "checkBe", "readFe",
            "readBe", "compareBe", "assignBe", "onFrontend", "onBackend", "recheck",
            "bind", "push", "unlock", "dead"}
AsyncPc == {"idle", "wait", "pop", "exit"}
Label   == Routine \union OwnerPc \union WatchPc \union AsyncPc

Goto(t, l) == pc' = [pc EXCEPT ![t] = l]

\* setBackendState(s) called by t, which goes on at l
CallSet(t, s, l) ==
  /\ Goto(t, "set")
  /\ arg' = [arg EXCEPT ![t] = s]
  /\ ret' = [ret EXCEPT ![t] = l]
  /\ UNCHANGED <<after, done>>

\* close(s) called by t, which goes on at l
CallClose(t, s, l) ==
  /\ Goto(t, "close")
  /\ after' = [after EXCEPT ![t] = s]
  /\ done' = [done EXCEPT ![t] = l]
  /\ UNCHANGED <<arg, ret>>

GotoOnly(t, l) == Goto(t, l) /\ UNCHANGED frames

\* Writing or removing a node puts an event on every watch of it, the
\* writer's own included.
Notify(node) == watchQ' = IF watching THEN Append(watchQ, node) ELSE watchQ

\* An exception leaves a watch callback: the lock guard unlocks, the watch
\* thread hands the exception to onError(), which posts close(), and ends.
Throw ==
  /\ GotoOnly("watch", "dead")
  /\ mMutex' = "none"
  /\ asyncCalls' = asyncCalls + 1
  /\ toBind' = 0
  /\ UNCHANGED <<mTerminate, alive, mRingBuffers, evt>>

CountFault ==
  /\ faults < MaxFaults
  /\ faults' = faults + 1
  /\ UNCHANGED <<feWrites, beWrites, ringErrors, interrupts>>
Fault   == CountFault /\ UNCHANGED misread
Misread == CountFault /\ misread' = TRUE

\* checkIfExist(), which is false after any error of xs_read()
Exists(node) == node # Absent /\ UNCHANGED bounds
Missing(node) == IF node = Absent THEN UNCHANGED bounds ELSE Misread

\* readInt() throws if the node has gone, or xs_read() fails.
Unreadable(node) == IF node = Absent THEN UNCHANGED bounds ELSE Fault
-----------------------------------------------------------------------------
(* setBackendState() *)

SetBackendState(t) ==
  /\ pc[t] = "set"
  /\ GotoOnly(t, IF arg[t] = mBackendState THEN ret[t] ELSE "assign")
  /\ UNCHANGED <<store, state, mMutex, rings, calls, bounds>>

Assign(t) ==
  /\ pc[t] = "assign"
  /\ mBackendState' = arg[t]
  /\ GotoOnly(t, "exist")
  /\ UNCHANGED <<store, mFrontendState, mMutex, rings, calls, bounds>>

CheckIfExist(t) ==
  /\ pc[t] = "exist"
  /\ \/ Exists(xsBe) /\ GotoOnly(t, "write")
     \/ Missing(xsBe) /\ GotoOnly(t, ret[t])
  /\ UNCHANGED <<store, state, mMutex, rings, calls>>

\* No transaction spans the check and the write: a node removed in between
\* is created again.
WriteInt(t) ==
  /\ pc[t] = "write"
  /\ xsBe' = arg[t]
  /\ Notify("be")
  /\ GotoOnly(t, ret[t])
  /\ UNCHANGED <<xsFe, watching, state, mMutex, rings, calls, bounds>>

\* The store refuses the write and XenStoreException leaves the routine: in
\* the watch thread it ends the thread, in the thread of mAsyncContext, which
\* catches nothing, it ends the process, in the constructor it ends the
\* handler, and stop() it leaves unlocked, to be called again, or, if it is the
\* destructor that called stop(), it ends the process too.
WriteFails(t) ==
  /\ pc[t] = "write"
  /\ Fault
  /\ \/ t = "watch" /\ Throw
     \/ /\ t = "async" \/ (t = "owner" /\ mMutex = "owner")
        /\ alive' = FALSE
        /\ UNCHANGED <<pc, frames, mMutex, rings, asyncCalls, mTerminate>>
     \/ /\ t = "owner" /\ mMutex = "owner"
        /\ GotoOnly("owner", "joinWatch")
        /\ mMutex' = "none"
        /\ UNCHANGED <<rings, calls>>
     \/ /\ t = "owner" /\ mMutex # "owner"
        /\ GotoOnly("owner", "threw")
        /\ mTerminate' = TRUE
        /\ UNCHANGED <<mMutex, rings, asyncCalls, alive>>
  /\ UNCHANGED <<store, state>>
-----------------------------------------------------------------------------
(* close() and release() *)

\* Mutant: close() without announcing it
CloseSilently(t) ==
  /\ pc[t] = "close"
  /\ GotoOnly(t, "release")
  /\ UNCHANGED <<store, state, mMutex, rings, calls, bounds>>

\* Mutant: Closed written ahead of release()
CloseEarly(t) ==
  /\ pc[t] = "close"
  /\ CallSet(t, "Closed", "release")
  /\ UNCHANGED <<store, state, mMutex, rings, calls, bounds>>

Close(t) ==
  /\ pc[t] = "close"
  /\ IF mBackendState # "Closed" THEN CallSet(t, "Closing", "release")
                                 ELSE GotoOnly(t, "release")
  /\ UNCHANGED <<store, state, mMutex, rings, calls, bounds>>

\* Mutant: release() that only clears the vector
StopNoRings(t) ==
  /\ pc[t] = "release"
  /\ GotoOnly(t, "clear")
  /\ UNCHANGED <<store, state, mMutex, rings, calls, bounds>>

\* stop() on every ring of the vector joins its event thread.
StopRings(t) ==
  /\ pc[t] = "release"
  /\ evt' = [r \in Rings |-> IF r \in mRingBuffers THEN "stopped" ELSE evt[r]]
  /\ GotoOnly(t, "clear")
  /\ UNCHANGED <<store, state, mMutex, mRingBuffers, toBind, calls, bounds>>

\* Clearing the vector deletes the rings.
ClearRings(t) ==
  /\ pc[t] = "clear"
  /\ mRingBuffers' = {}
  /\ evt' = [r \in Rings |-> IF r \in mRingBuffers THEN "none" ELSE evt[r]]
  /\ CallSet(t, "Closed", "reopen")
  /\ UNCHANGED <<store, state, mMutex, toBind, calls, bounds>>

Reopen(t) ==
  /\ pc[t] = "reopen"
  /\ CallSet(t, after[t], done[t])
  /\ UNCHANGED <<store, state, mMutex, rings, calls, bounds>>

RoutineStep(t) ==
  \/ SetBackendState(t) \/ Assign(t) \/ CheckIfExist(t) \/ WriteInt(t)
  \/ Close(t) \/ StopRings(t) \/ ClearRings(t) \/ Reopen(t)
-----------------------------------------------------------------------------
(* The owner: the constructor, start(), stop() *)

\* An exception leaves the constructor: the members are destroyed, and
\* mAsyncContext with them.
ConstructorThrows ==
  /\ GotoOnly("owner", "threw")
  /\ mTerminate' = TRUE

\* initXenStorePathes(), which throws if it cannot read the store, and the
\* check of the backend's node
Construct ==
  /\ pc["owner"] = "new"
  /\ \/ Exists(xsBe) /\ GotoOnly("owner", "readInit") /\ UNCHANGED mTerminate
     \/ Missing(xsBe) /\ GotoOnly("owner", "constructed") /\ UNCHANGED mTerminate
     \/ Fault /\ ConstructorThrows
  /\ UNCHANGED <<store, state, mMutex, rings, asyncCalls, alive>>

ReadInit ==
  /\ pc["owner"] = "readInit"
  /\ \/ /\ Unreadable(xsBe)
        /\ ConstructorThrows
        /\ UNCHANGED mBackendState
     \/ /\ Exists(xsBe)
        /\ mBackendState' = xsBe
        /\ IF xsBe # "Closed"
             THEN CallClose("owner", "Initialising", "constructed")
             ELSE CallSet("owner", "Initialising", "constructed")
        /\ UNCHANGED mTerminate
  /\ UNCHANGED <<store, mFrontendState, mMutex, rings, asyncCalls, alive>>

\* xenstored answers a new watch with an event at once.
Start ==
  /\ pc["owner"] = "constructed"
  /\ watching' = TRUE
  /\ watchQ' = <<"fe", "be">>
  /\ pc' = [pc EXCEPT !["owner"] = "up", !["watch"] = "poll"]
  /\ UNCHANGED <<xsFe, xsBe, state, mMutex, rings, calls, frames, bounds>>

\* setWatch() throws, and there is no watch thread.  The owner may stop the
\* handler, or try again: that throws too if a watch was set, and changes
\* nothing.
StartFails ==
  /\ pc["owner"] = "constructed"
  /\ Fault
  /\ UNCHANGED <<store, state, mMutex, rings, calls, pc, frames>>

\* clearWatches(), and the stop of the watch thread: a byte in its pipe.  Of
\* the events that stay in the queue of the store only a watch thread that has
\* left poll() still takes notice.
Stop ==
  /\ pc["owner"] \in {"constructed", "up"}
  /\ watching' = FALSE
  /\ watchQ' = IF pc["watch"] = "read" THEN watchQ ELSE <<>>
  /\ GotoOnly("owner", "joinWatch")
  /\ UNCHANGED <<xsFe, xsBe, state, mMutex, rings, calls, bounds>>

\* Mutant: stop() that does not lock mMutex, nor wait for the watch thread
StopCloseNoLock ==
  /\ pc["owner"] = "joinWatch"
  /\ CallClose("owner", "Closed", "terminate")
  /\ UNCHANGED <<store, state, mMutex, rings, calls, bounds>>

\* Alone it is a mutant: stop() that does not join the watch thread.
LockAndClose ==
  /\ pc["owner"] = "joinWatch"
  /\ mMutex = "none"
  /\ mMutex' = "owner"
  /\ CallClose("owner", "Closed", "terminate")
  /\ UNCHANGED <<store, state, rings, calls, bounds>>

\* stop() joins the watch thread, then locks mMutex.
StopClose == pc["watch"] \in {"off", "dead"} /\ LockAndClose

\* Mutant: AsyncContext::stop() that only joins
TerminateNothing ==
  /\ pc["owner"] = "terminate"
  /\ GotoOnly("owner", "joinAsync")
  /\ UNCHANGED <<store, state, mMutex, rings, calls, bounds>>

\* mAsyncContext.stop(), which stop() calls with mMutex held
TerminateAsync ==
  /\ pc["owner"] = "terminate"
  /\ mTerminate' = TRUE
  /\ GotoOnly("owner", "joinAsync")
  /\ UNCHANGED <<store, state, mMutex, rings, asyncCalls, alive, bounds>>

JoinAsync ==
  /\ pc["owner"] = "joinAsync"
  /\ pc["async"] = "exit"
  /\ mMutex' = "none"
  /\ GotoOnly("owner", "stopped")
  /\ UNCHANGED <<store, state, rings, calls, bounds>>

OwnerInit == Construct \/ ReadInit
OwnerStop == StopClose \/ TerminateAsync \/ JoinAsync
-----------------------------------------------------------------------------
(* The watch thread: watchesThread() and the two callbacks *)

\* poll() finds the byte of the pipe before it looks at the store's descriptor.
Poll ==
  /\ pc["watch"] = "poll"
  /\ ~watching
  /\ GotoOnly("watch", "dead")
  /\ UNCHANGED <<store, state, mMutex, rings, calls, bounds>>

\* EINTR: poll() returns true, whatever there is or is not to read.
PollInterrupted ==
  /\ pc["watch"] = "poll"
  /\ interrupts < MaxInterrupts
  /\ interrupts' = interrupts + 1
  /\ GotoOnly("watch", "read")
  /\ UNCHANGED <<store, state, mMutex, rings, calls, feWrites, beWrites,
                 ringErrors, faults, misread>>

\* poll(), or read() of the byte, throws.
PollFails ==
  /\ pc["watch"] = "poll"
  /\ Fault
  /\ Throw
  /\ UNCHANGED <<store, state>>

\* readXsWatch(), which blocks until there is an event, and getWatchCallback():
\* an event of a watch that was cleared finds no callback.
ReadWatch ==
  /\ pc["watch"] = "read" \/ (pc["watch"] = "poll" /\ watching)
  /\ watchQ # <<>>
  /\ watchQ' = Tail(watchQ)
  /\ GotoOnly("watch", IF ~watching THEN "poll"
                       ELSE IF Head(watchQ) = "fe" THEN "checkFe" ELSE "checkBe")
  /\ UNCHANGED <<xsFe, xsBe, watching, state, mMutex, rings, calls, bounds>>

\* Both callbacks lock mMutex and return if the node is not there.
EnterCallback(here, node, next) ==
  /\ pc["watch"] = here
  /\ mMutex = "none"
  /\ \/ Missing(node) /\ GotoOnly("watch", "poll") /\ UNCHANGED mMutex
     \/ Exists(node) /\ GotoOnly("watch", next) /\ mMutex' = "watch"
  /\ UNCHANGED <<store, state, rings, calls>>

FrontendStateChanged == EnterCallback("checkFe", xsFe, "readFe")
BackendStateChanged  == EnterCallback("checkBe", xsBe, "readBe")

\* The node has gone since checkIfExist(), or cannot be read.
ReadGone ==
  /\ \/ pc["watch"] = "readFe" /\ Unreadable(xsFe)
     \/ pc["watch"] = "readBe" /\ Unreadable(xsBe)
  /\ Throw
  /\ UNCHANGED <<store, state>>

ReadFrontend ==
  /\ pc["watch"] = "readFe"
  /\ xsFe # Absent
  /\ mFrontendState' = xsFe
  /\ GotoOnly("watch", IF xsFe = mFrontendState THEN "unlock" ELSE "onFrontend")
  /\ UNCHANGED <<store, mBackendState, mMutex, rings, calls, bounds>>

ReadBackend ==
  /\ pc["watch"] = "readBe"
  /\ xsBe # Absent
  /\ arg' = [arg EXCEPT !["watch"] = xsBe]
  /\ Goto("watch", "compareBe")
  /\ UNCHANGED <<store, state, mMutex, rings, calls, ret, after, done, bounds>>

\* Mutant: only Closing and Closed of the node are taken over
CompareClosing ==
  /\ pc["watch"] = "compareBe"
  /\ GotoOnly("watch", IF arg["watch"] \in {"Closing", "Closed"} \ {mBackendState}
                         THEN "assignBe" ELSE "unlock")
  /\ UNCHANGED <<store, state, mMutex, rings, calls, bounds>>

CompareBackend ==
  /\ pc["watch"] = "compareBe"
  /\ GotoOnly("watch", IF arg["watch"] = mBackendState THEN "unlock" ELSE "assignBe")
  /\ UNCHANGED <<store, state, mMutex, rings, calls, bounds>>

AssignBackend ==
  /\ pc["watch"] = "assignBe"
  /\ mBackendState' = arg["watch"]
  /\ GotoOnly("watch", "onBackend")
  /\ UNCHANGED <<store, mFrontendState, mMutex, rings, calls, bounds>>

OnBackendStateChanged ==
  /\ pc["watch"] = "onBackend"
  /\ \/ /\ mBackendState \in {"Closing", "Closed"}
        /\ CallClose("watch", "Closed", "unlock")
     \/ /\ mBackendState = "Initialising"
        /\ CallSet("watch", "InitWait", "unlock")
     \/ /\ mBackendState \notin {"Closing", "Closed", "Initialising"}
        /\ GotoOnly("watch", "unlock")
  /\ UNCHANGED <<store, state, mMutex, rings, calls, bounds>>

Unlock ==
  /\ pc["watch"] = "unlock"
  /\ mMutex' = "none"
  /\ GotoOnly("watch", "poll")
  /\ UNCHANGED <<store, state, rings, calls, bounds>>
-----------------------------------------------------------------------------
(* onFrontendStateChanged(): the handlers of sStateTable *)

OnStateInitializing ==
  /\ pc["watch"] = "onFrontend"
  /\ mFrontendState = "Initialising"
  /\ IF mBackendState = "Connected" THEN CallClose("watch", "InitWait", "recheck")
                                    ELSE GotoOnly("watch", "recheck")
  /\ UNCHANGED <<store, state, mMutex, rings, calls, bounds>>

Recheck ==
  /\ pc["watch"] = "recheck"
  /\ IF mBackendState \in {"Initialising", "Closed"}
       THEN CallSet("watch", "InitWait", "unlock")
       ELSE GotoOnly("watch", "unlock")
  /\ UNCHANGED <<store, state, mMutex, rings, calls, bounds>>

\* Mutant: a handler in InitWait is left to the frontend's next state
OnStateConnectedEarly ==
  /\ pc["watch"] = "onFrontend"
  /\ mFrontendState \in {"Initialised", "Connected"}
  /\ IF mBackendState = "Initialising"
       THEN GotoOnly("watch", "bind") /\ toBind' = RingsPerBind
       ELSE GotoOnly("watch", "unlock") /\ UNCHANGED toBind
  /\ UNCHANGED <<store, state, mMutex, mRingBuffers, evt, calls, bounds>>

\* onStateInitialized() and onStateConnected()
OnStateConnected ==
  /\ pc["watch"] = "onFrontend"
  /\ mFrontendState \in {"Initialised", "Connected"}
  /\ IF mBackendState \in {"Initialising", "InitWait"}
       THEN GotoOnly("watch", "bind") /\ toBind' = RingsPerBind
       ELSE GotoOnly("watch", "unlock") /\ UNCHANGED toBind
  /\ UNCHANGED <<store, state, mMutex, mRingBuffers, evt, calls, bounds>>

\* onStateClosing() and onStateClosed()
OnStateClosing ==
  /\ pc["watch"] = "onFrontend"
  /\ mFrontendState \in {"Closing", "Closed"}
  /\ IF mBackendState \in {"Initialised", "Connected"}
       THEN CallClose("watch", "InitWait", "unlock")
       ELSE GotoOnly("watch", "unlock")
  /\ UNCHANGED <<store, state, mMutex, rings, calls, bounds>>

OnStateOther ==
  /\ pc["watch"] = "onFrontend"
  /\ mFrontendState \notin {"Initialising", "Initialised", "Connected",
                            "Closing", "Closed"}
  /\ GotoOnly("watch", "unlock")
  /\ UNCHANGED <<store, state, mMutex, rings, calls, bounds>>

\* addRingBuffer(): the ring's event thread runs before the vector holds it.
StartRing ==
  /\ pc["watch"] = "bind"
  /\ toBind > 0
  /\ \E r \in Rings : evt[r] = "none" /\ evt' = [evt EXCEPT ![r] = "running"]
  /\ GotoOnly("watch", "push")
  /\ UNCHANGED <<store, state, mMutex, mRingBuffers, toBind, calls, bounds>>

\* The ring that exists outside the vector is the one addRingBuffer() holds.
PushRing ==
  /\ pc["watch"] = "push"
  /\ mRingBuffers' = {r \in Rings : evt[r] # "none"}
  /\ toBind' = toBind - 1
  /\ GotoOnly("watch", "bind")
  /\ UNCHANGED <<store, state, mMutex, evt, calls, bounds>>

BindDone ==
  /\ pc["watch"] = "bind"
  /\ toBind = 0
  /\ CallSet("watch", "Connected", "unlock")
  /\ UNCHANGED <<store, state, mMutex, rings, calls, bounds>>

\* A ring cannot be made (no event channel, a bad grant reference): the
\* constructor throws out of onBind().
BindFails ==
  /\ pc["watch"] = "bind"
  /\ toBind > 0
  /\ \/ Fault
     \/ (\A r \in Rings : evt[r] # "none") /\ UNCHANGED bounds
  /\ Throw
  /\ UNCHANGED <<store, state>>

WatchStep ==
  \/ Poll \/ PollFails \/ ReadWatch \/ FrontendStateChanged \/ BackendStateChanged
  \/ ReadGone \/ ReadFrontend \/ ReadBackend \/ CompareBackend \/ AssignBackend
  \/ OnBackendStateChanged \/ Unlock \/ OnStateInitializing \/ Recheck
  \/ OnStateConnected \/ OnStateClosing \/ OnStateOther
  \/ StartRing \/ PushRing \/ BindDone \/ BindFails
-----------------------------------------------------------------------------
(* AsyncContext::run(), and onError() of the rings *)

\* run() tests mTerminate before it first looks at the queue.
AsyncEnter ==
  /\ pc["async"] = "idle"
  /\ GotoOnly("async", IF mTerminate THEN "exit" ELSE "wait")
  /\ UNCHANGED <<store, state, mMutex, rings, calls, bounds>>

\* Mutant: the wait of run() has no predicate
AsyncCallSpurious ==
  /\ pc["async"] = "wait"
  /\ CallClose("async", "Closed", "pop")
  /\ UNCHANGED <<store, state, mMutex, rings, calls, bounds>>

AsyncCall ==
  /\ pc["async"] = "wait"
  /\ \/ asyncCalls > 0 /\ CallClose("async", "Closed", "pop")
     \/ asyncCalls = 0 /\ mTerminate /\ GotoOnly("async", "exit")
  /\ UNCHANGED <<store, state, mMutex, rings, calls, bounds>>

AsyncPop ==
  /\ pc["async"] = "pop"
  /\ asyncCalls' = asyncCalls - 1
  /\ GotoOnly("async", "wait")
  /\ UNCHANGED <<store, state, mMutex, rings, mTerminate, alive, bounds>>

AsyncStep == AsyncEnter \/ AsyncCall \/ AsyncPop

RingError(r) ==
  /\ evt[r] = "running"
  /\ ringErrors < MaxRingErrors
  /\ ringErrors' = ringErrors + 1
  /\ evt' = [evt EXCEPT ![r] = "failed"]
  /\ asyncCalls' = asyncCalls + 1
  /\ UNCHANGED <<store, state, mMutex, mRingBuffers, toBind, mTerminate, alive,
                 pc, frames, feWrites, beWrites, interrupts, faults, misread>>
-----------------------------------------------------------------------------
(* The frontend and the toolstack *)

FrontendWrite(s) ==
  /\ feWrites < MaxFrontendWrites
  /\ s # xsFe
  /\ xsFe' = s
  /\ Notify("fe")
  /\ feWrites' = feWrites + 1
  /\ UNCHANGED <<xsBe, watching, state, mMutex, rings, calls, pc, frames,
                 beWrites, ringErrors, interrupts, faults, misread>>

ToolstackWrite(s) ==
  /\ beWrites < MaxToolstackWrites
  /\ s # xsBe
  /\ xsBe' = s
  /\ Notify("be")
  /\ beWrites' = beWrites + 1
  /\ UNCHANGED <<xsFe, watching, state, mMutex, rings, calls, pc, frames,
                 feWrites, ringErrors, interrupts, faults, misread>>
-----------------------------------------------------------------------------
Init ==
  /\ xsFe \in InitialFrontend
  /\ xsBe \in InitialBackend
  /\ watching = FALSE /\ watchQ = <<>>
  /\ mBackendState = "Unknown" /\ mFrontendState = "Unknown"
  /\ mMutex = "none"
  /\ mRingBuffers = {} /\ evt = [r \in Rings |-> "none"] /\ toBind = 0
  /\ asyncCalls = 0 /\ mTerminate = FALSE /\ alive = TRUE
  /\ pc = [t \in Thread |-> CASE t = "owner" -> "new"
                              [] t = "watch" -> "off"
                              [] t = "async" -> "idle"]
  /\ arg = [t \in Thread |-> "Unknown"] /\ after = [t \in Thread |-> "Unknown"]
  /\ ret = [t \in Thread |-> "idle"] /\ done = [t \in Thread |-> "idle"]
  /\ feWrites = 0 /\ beWrites = 0 /\ ringErrors = 0
  /\ interrupts = 0 /\ faults = 0 /\ misread = FALSE

\* The handler is gone, or the process is: nothing need happen any more.
Finished == pc["owner"] \in {"stopped", "threw"} \/ ~alive

\* An interrupted poll() let the watch thread go on to read an event there is
\* none of; the byte stop() puts into the pipe does not reach it there.
Blocked == pc["watch"] = "read" /\ watchQ = <<>>

Next ==
  \/ /\ alive
     /\ \/ \E t \in Thread : RoutineStep(t) \/ WriteFails(t)
        \/ OwnerInit \/ Start \/ StartFails \/ Stop \/ OwnerStop
        \/ WatchStep \/ PollInterrupted
        \/ AsyncStep
        \/ \E r \in Rings : RingError(r)
        \/ \E s \in FrontendWrites : FrontendWrite(s)
        \/ \E s \in ToolstackWrites : ToolstackWrite(s)
  \/ (Finished \/ Blocked) /\ UNCHANGED vars

Spec == Init /\ [][Next]_vars

\* Every thread of the handler is scheduled; whether the owner ever calls
\* start() and stop(), and what the signals and the other domains do, is up to
\* them.
Fairness ==
  /\ WF_vars(alive /\ (RoutineStep("owner") \/ OwnerInit \/ OwnerStop))
  /\ WF_vars(alive /\ (RoutineStep("watch") \/ WatchStep))
  /\ WF_vars(alive /\ (RoutineStep("async") \/ AsyncStep))

FairSpec == Spec /\ Fairness
-----------------------------------------------------------------------------
(* Properties *)

\* Every variable has its type.
TypeOK ==
  /\ xsFe \in NodeValue /\ xsBe \in NodeValue
  /\ watching \in BOOLEAN /\ watchQ \in Seq({"fe", "be"})
  /\ mBackendState \in XenbusState /\ mFrontendState \in XenbusState
  /\ mMutex \in {"none", "owner", "watch"}
  /\ mRingBuffers \subseteq Rings
  /\ evt \in [Rings -> {"none", "running", "failed", "stopped"}]
  /\ toBind \in Nat /\ asyncCalls \in Nat
  /\ mTerminate \in BOOLEAN /\ alive \in BOOLEAN
  /\ pc \in [Thread -> Label]
  /\ arg \in [Thread -> XenbusState] /\ after \in [Thread -> XenbusState]
  /\ ret \in [Thread -> Label] /\ done \in [Thread -> Label]
  /\ feWrites \in Nat /\ beWrites \in Nat
  /\ ringErrors \in Nat
  /\ interrupts \in Nat /\ faults \in Nat /\ misread \in BOOLEAN

\* As long as nothing has failed, a frontend that sees the backend Connected
\* has a backend whose ring buffers are there and whose event threads run,
\* whatever the frontend and the toolstack write: the node is written after
\* onBind(), and Closing is written before release().  (A close() that an
\* exception of the watch thread has posted may meet the one of stop() after
\* that has assigned Closing and before it writes it, and release the rings.)
ConnectedIsServed ==
  /\ pc["owner"] \in {"up", "joinWatch", "stopped"} \/ mMutex = "owner"
  /\ pc["async"] \notin Routine
  /\ ringErrors = 0 /\ faults = 0
  /\ xsBe = "Connected"
  => mRingBuffers # {} /\ \A r \in mRingBuffers : evt[r] = "running"

Deleted(r) == evt[r] # "none" /\ evt'[r] = "none"

\* As long as no ring has failed, no ring is deleted before its event thread has
\* been joined, not even by the close() that an exception of the watch thread
\* posts and that runs beside stop().
DeletedOnlyStoppedUnlessFailed ==
  [][ringErrors = 0 => \A r \in Rings : Deleted(r) => evt[r] = "stopped"]_vars

\* At most one thread is inside close() and its release(): the ring vector and
\* the stop of a ring (join) are not safe for two.  Needs that nothing throws.
ReleaseExclusive ==
  \A t, u \in Thread : pc[t] \in {"release", "clear"} /\ pc[u] \in {"release", "clear"} => t = u

\* When the handler is up and idle, the node holds the state the handler
\* remembers, whatever threw: a write the two disagree on still has its event
\* to come.  Not so if an error of xs_read() made a node that is there look
\* gone: what was to be written is then never written, or an event not looked
\* into.  (A node that was removed stays away.)
Idle == /\ pc["owner"] = "up" /\ pc["watch"] = "poll" /\ watchQ = <<>>
        /\ pc["async"] = "wait" /\ asyncCalls = 0
IdleAgreement == Idle /\ ~misread /\ xsBe # Absent => xsBe = mBackendState

\* stop() leaves nothing behind, whatever failed before: the state is Closed,
\* no ring is left, no event thread runs, the other two threads are joined.
StoppedIsClosed ==
  pc["owner"] = "stopped" =>
    /\ mBackendState = "Closed"
    /\ mRingBuffers = {} /\ \A r \in Rings : evt[r] = "none"
    /\ pc["watch"] \in {"off", "dead"} /\ pc["async"] = "exit"

\* stop() returns if the process survives: it waits for the watch thread
\* without mMutex and for the thread of mAsyncContext, which takes no lock,
\* with it.  Only a signal can keep it: a watch thread that an interrupted
\* poll() has sent to read an event waits there for one that does not come.
StopReturns ==
  pc["owner"] = "joinWatch" ~> pc["owner"] = "stopped" \/ ~alive \/ Blocked

\* A frontend that waits for the backend at InitWait, with its rings made, is
\* served: its event is not missed, whichever state the backend came from when
\* it was written.  Unless it changes its mind, or the owner stops.
Waiting == pc["owner"] = "up" /\ xsFe \in {"Initialised", "Connected"}
FrontendServed == Waiting /\ xsBe = "InitWait" ~> xsBe = "Connected" \/ ~Waiting

\* What the frontend relies on (see BackendLifecycle), with the node as the
\* state and the ring objects as the service.
Lifecycle == INSTANCE BackendLifecycle
               WITH node <- xsBe, served <- \E r \in Rings : evt[r] # "none"
ImplementsLifecycle == Lifecycle!FairSpec
-----------------------------------------------------------------------------
(* What a comment says, and the code does not do                             *)

\* No ring is deleted before its event thread has been joined: "stop is
\* required to prevent calling processRequest during deletion" (release()).
DeletedOnlyStopped == [][\A r \in Rings : Deleted(r) => evt[r] = "stopped"]_vars
=============================================================================
