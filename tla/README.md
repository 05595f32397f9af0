# libxenbe in TLA+

libxenbe is a C++ library for Xen para-virtual backends. A backend process in
one domain serves the *frontend* driver of another. The two find each other
through the Xen store (a shared tree of nodes with watches), agree on being
connected by writing a `state` node each, and then talk through shared pages
and event channels. The library does the finding, the state machine, and both
kinds of ring; its client supplies `onNewFrontend()`, `onBind()` and
`processRequest()`.

The modules here are translated from the code; `PROJECT.json` names, for every
definition, the lines it stands for.

## The parts of the system

| Part | State | Operations | What makes it correct |
|---|---|---|---|
| `FrontendHandlerBase` | `mBackendState`, `mFrontendState`, `mRingBuffers`, `mMutex`, a store connection, an `AsyncContext` | constructor, `start`, `stop`, the two watch callbacks, `addRingBuffer`, `onError`, `close` | The node never promises what is not there; rings are deleted only when their threads are; `stop` returns with nothing left; node and memory agree |
| `RingBufferInBase` | the private ring, the shared page | `onReceiveIndication`, `sendResponse` | Each request is handed out once, in order, answered once; neither end sleeps over work |
| `RingBufferOutBase` | the shared page, `mMutex` | `sendEvent` | Each event is dropped on a full buffer or arrives whole and in order |
| `RingBufferBase`, `XenEvtchn` | an event channel and its thread | `start`, `stop`, `notify`, `setErrorCallback`, `eventThread` | No callback after `stop`; an error is reported once |
| `XenStore` | watches by path, a thread, `mStarted` | reads, writes, `setWatch`, `clearWatch(es)`, `start`, `stop`, `watchesThread` | A watch event reaches its callback; none runs after `stop` |
| `BackendBase` | domains and handlers known | `start`, `stop`, `domainListChanged`, `deviceListChanged`, `frontendPathChanged`, `addFrontendHandler` | Each frontend that is there has one handler, one that has gone has none |
| `AsyncContext` | a queue of calls, a thread | `call`, `stop`, `run` | Calls run once each, in the order posted, beside the threads that post more |
| `Timer` | a thread, `mTerminate`, two mutexes | `start`, `stop`, `run` | Calls back when the time is over, periodic ones until stopped; `stop` returns |
| `PollFd` | a descriptor and a pipe | `poll`, `stop` | `stop` ends the next `poll`; every event is reported |
| `XenGnttab*` | mapped buffers, DMA descriptors | map, unmap, export, import, `waitForReleased` | Unmapped once; no use of a closed descriptor |
| `XenInterface`, `XenStat` | none | `getDomainsInfo` and filters of it | Every domain once |
| `Log` | level, mask items, the longest header | `setLogMask`, `setLogLevel`, constructor, `LogLine` | The last item that matches decides the level; a line does not throw |
| `Exception`, `Utils` | none | formatting | |

How they interact: `BackendBase` watches the store and has the client make a
`FrontendHandlerBase` per device; the handler has a store connection of its
own, whose *watch thread* runs its callbacks; `onBind()` makes rings, and every
ring has an *event thread*; a ring that fails, or a callback that throws, calls
`onError()`, which posts `close()` to the *thread of the `AsyncContext`*. So up
to four kinds of thread meet in one handler, and only some of them lock.

What is hard here: `close()` in the asynchronous thread takes no lock; the
store is read and written in single requests with other writers in between;
watch events say that something changed, not what; the rings are indices and
slots shared without locks, with notifications that are left out when not asked
for; and the same integers wrap. `PROJECT.json`'s hazards list these, each at
its line.

## Modules

| Module | What it models |
|---|---|
| `Xenbus` | the states and the values a `state` node can have |
| `FrontendHandler` | `FrontendHandlerBase` with all its threads |
| `BackendLifecycle` | what the handler promises the frontend: the node and whether rings are held, nothing else |
| `MCFrontendHandler` | value sets for the runs |
| `FrontendHandler_proofs` | its inductive invariants and the theorems, `BackendLifecycle` among them |
| `RingBufferIn` | `RingBufferInBase` and the frontend's half |
| `RingBufferIn_proofs` | its invariant and theorems; that it implements `RequestChannel` |
| `RequestChannel` | what the request ring promises: two queues and a set |
| `RingBufferOut` | `RingBufferOutBase` and the frontend's half |
| `RingBufferOut_proofs` | its invariant and theorems, `EventQueue` among them |
| `EventQueue` | what the event ring promises: a bounded queue |
| `Backend` | `BackendBase` with its `XenStore`: watch map, watch thread, pipe |
| `MCBackend` | the devices of the runs |
| `Backend_proofs` | its inductive invariant and the theorems |
| `AsyncContext` | the list of calls and the thread that makes them, lock by lock |
| `EventChannel` | one `RingBufferBase`: its `XenEvtchn`, `PollFd` and `XenGnttabBuffer` |
| `RingErrors` | both of these composed by the handler's `release()`: a ring that fails while it is let go of |
| `RingErrors_proofs` | its inductive invariant and the theorems |
| `Timer`, `Timer_proofs` | `Timer` with its clients, and theorems |
| `DomainList`, `DomainList_proofs` | `XenInterface::getDomainsInfo()` and `XenStat`, and theorems |
| `Log`, `MCLog`, `Log_proofs` | masks and lines of the log; the masks of the run; and theorems |

**FrontendHandler.** The threads `owner` (constructs, starts, stops), `watch`
and `async` have a program counter each; a step is what lies between two points
where another thread or the store may come in: each store request is one step,
and so is each access to `mBackendState` that more than one thread may make.
`close()` and `setBackendState()` are routines that any of the three may be in
(`RoutineStep(t)`); `arg`/`ret` and `after`/`done` are their arguments and return
points. `mMutex` is the handler's lock. The event thread of ring `r` is `evt[r]`;
stopping a ring joins it and deleting it is clearing the vector, two steps.
`onBind()` adds `RingsPerBind` rings, each with `StartRing` (the event thread
runs) and `PushRing` (the vector has it), as `addRingBuffer()` does. The watch
events are a queue: `xenstored` queues one for each write, the handler's own
too, and one when a watch is set. An exception goes where the code lets it go:
out of a callback it ends the watch thread and posts `close()` (`Throw`); out of
the asynchronous thread it ends the process (`alive`); out of the constructor
it ends the handler; out of `stop()` it goes to the caller, or ends the process
if the caller is the destructor. What may throw is every read and write of the store,
`setWatch()` in `start()` (`StartFails`), `poll()` (`PollFails`) and `onBind()`; only
`checkIfExist()` throws nothing, it answers that there is no node (`Misread`). `poll()`
interrupted by a signal returns as if there were an event (`PollInterrupted`), and if
there is none the watch thread stays in `xs_read_watch()` (`Blocked`).

**RingBufferIn.** Four threads: the frontend's sender and receiver, the ring's
event thread, and a worker of the client's. A step is one access to the page,
as the macros of Xen's `ring.h` order them; the event channel is a pending bit
either way, cleared as the event thread clears it before the callback. The
client answers in `processRequest()` or later from the worker, in any order.

**RingBufferOut.** `sendEvent()` with its two stores apart: they reach the page
in program order, or, with `Reorder`, in either, since the barrier comes after
both.

**Backend.** The nodes below the backend's path are the sequences `<<dom>>` and
`<<dom, dev>>`; `mWatches` is the map of the store object, a watch being its path
(path and token are the same string in the code). The watch thread's program
counter stands at each request to the store: `checkIfExist()`, `readDirectory()`,
`setWatch()` and `clearWatch()` are steps, and so are what a new handler does to
the store when it is made, started and deleted. `todo` is the rest of the
directory that was read. A handler is a device and `gen`, how often the device
had been created when the handler was made. An event already pending is not
queued twice: callbacks read the store as it is when they run. `stop()` is three
steps (clear the watches, write the byte, join), `start()` two, and both may be
called again; the pipe keeps a byte nobody has read. What fails is `setWatch()`, the client's
constructor, a handler's `start()`, its `stop()` when it is removed, and `poll()`. Where
nothing catches the exception the watch thread ends: after a failed removal with the watch of
the device cleared and its handler listed. `checkIfExist()` and `readDirectory()` throw
nothing, an error looks like a node that is not there. `poll()` may be interrupted, as above. That a path cannot be watched
twice is xenstored's rule (`EEXIST`); the mock of the tests has no such rule.

**AsyncContext.** `locked` is `mMutex` in the hands of the thread of `run()`: it holds it
from `Lock` on but while it waits (`waiting`) and while a posted function runs
(`call`). Every other user of the mutex takes it for one statement, so `Call`
and `Terminate` are steps with the guard `~locked`. The function that runs is the
head of the list until `Pop`; `posted` and `ran` are histories.

**EventChannel.** `held` is what constructors have acquired and destructors have not given
back. `XenEvtchn::stop()` may be entered by several threads; it is taken apart at
`joinable()`, the wait in `join()` and `mStarted = false`, and a second thread that
finds the thread joinable while the first waits does something undefined (it
goes on, or the process is dead: `alive`). `poll()` returns for the byte, for an
event, or, interrupted, for nothing; `xenevtchn_pending()` then blocks.

**RingErrors.** `onBind()` makes a ring (any constructor may fail), starts it and pushes it;
`release()` copies the shared pointer, stops the ring, drops the copy, clears the
vector. The owner runs it in `stop()` and the thread of the `AsyncContext` in a
posted `close()`; whoever drops the last reference (`refs`, `listed`) runs the destructor.
`FrontendHandler` has the handler's states, several rings and the store, and stops
a ring in one step; here a ring has its inside and the states are left out.

**Timer.** A client holds `mItfMutex` from `LockItf` to the end of `start()` or `stop()`;
`mMutex` is the timer thread's while `Locked`; `stop()` of a periodic timer waits for it (`Terminate`)
before it joins. The time is over whenever `Expire` is
taken. The destructor is one more `stop()`.

**DomainList.** The answer of the hypercall is any chunk the hypervisor may give (`IsChunk`),
and domains change state between two hypercalls. `since` is a history of the states
each domain has been in during the call.

**Log.** A mask is a sequence of items, an item's level the set of levels its text
abbreviates. Names are sequences of letters, so that `*` can be a prefix. A `LogLine` is
taken apart at each access to `sAlignmentLength`, which no lock guards.

## Runs

| Run | Shows |
|---|---|
| `handler_faults` | `IdleAgreement`, `StoppedIsClosed`, `ConnectedIsServed`, `DeletedOnlyStoppedUnlessFailed`, `StopReturns` with one ring failure, one failing call (store, `poll()` or `onBind()`), one interrupted `poll()`, one write of the toolstack and one of the frontend, node removal included |
| `handler_refines` | `ImplementsLifecycle`, `ReleaseExclusive` and `FrontendServed` from every state a handler that died may have left, three writes of the frontend, two rings to a bind, one interrupted `poll()`, no failure |
| `ring_in` | `NoFalseOverflow`, `NothingStranded`, `ImplementsChannel` |
| `ring_out` | `ImplementsQueue` |
| `ring_errors` | `CallbackHasRing`, `NothingLeaks`, `CallsInOrder`, `StopReturns`, `ErrorCloses`, `NotificationServed`: two notifications, one interrupted `poll()`, one error of the ring and one of the watch thread |
| `backend` | `ListedIsWatched`, `ThreadSurvives`, `DroppedOnlyIfGone`, `FollowsStore`, `StopReturns`: two devices of a domain, three changes, one failure, one interrupted `poll()`, a restart |
| `timer` | `OneShotOnce`, `NoCallbackOnceTerminated`, `CallsBack`, `StopReturns`: two clients, periodic and one-shot |
| `domains` | `Ascending`, `Complete`, `RunningDoms`: every set of four domains in chunks of two, two changes |
| `log` | `MaskDecides`, `OnlyRaceThrows`: two masks one after the other, two threads |
| `handler_ring_error_deletion`, `ring_out_reorder`, `backend_retry` | what the code does against what a comment or a test says, below |

The bounds. One ring and one write of each kind are enough for two `close()` to
meet: the one `stop()` runs and the one an exception posts; a second ring is
used where order among rings matters (a bind that fails half way, an error
during `addRingBuffer()`), which is why `handler_refines` and the run about deletion
during a bind have two. The three frontend writes of `handler_refines` take a device through
a full cycle and into the next; `handler_faults` has one, to connect or to go, and everything
else that can meet it. One interrupted `poll()` is enough to have the watch thread read where there is
nothing to read, before or while `stop()` waits for it. Ring size
2 with indices modulo 4 makes both the slots and the indices wrap within the
five requests, and fills the ring with two unanswered; the event buffer of two
is filled and wraps, indices modulo 8 starting at 6. Three changes
of the toolstack are a device that comes, goes and comes back, or two that come and one that goes;
creating a device creates its domain, and removing the domain removes its devices. Four domains in chunks of two make lists that end with a full
chunk, with half of one and with an empty one; two changes let a domain go where the next
chunk starts and another come below it. In `ring_errors` one notification can come
while the callback of the first runs; one error and one failing store are the two
`close()` that meet. Three starts are two clients and a second life of a periodic
timer. Five masks have names, prefixes, a bad level, a text that abbreviates two
levels and empty items; two lines with headers of two lengths are all a race for the
longest header needs. The constants with `Max`
bound how often something happens, in guards only.

Fairness. Each thread of the handler is scheduled (weak fairness per thread): a
`std::thread` that can run does, and no thread spins. Nothing is assumed of the
owner (who may never call `stop()`), of the frontend, or of the toolstack. Both ends of a ring are
scheduled; for `Backend` the watch thread and the owner's calls once made (nobody
has to call `stop()`, the toolstack need not change anything); for `RingBufferIn` a client that has a request answers it, and a
frontend that fills slots pushes them. A handler or a process that has gone
stutters (`Finished`), as do rings when all bounded work is done (`Quiet`), a
backend whose owner is in no call (`Idle`), and a thread in `xs_read_watch()` with nothing to read (`Blocked`), so
deadlock is checked in every run. Signals need not come. In `RingErrors` the owner, the thread of the
`AsyncContext` and the event thread are scheduled; nobody need stop the handler and the
frontend need not notify. In `Timer` the thread is scheduled and time passes, and a client that is
in `start()` or `stop()` goes on. Where `stop()` of a periodic timer waits for `mMutex` that takes strong
fairness: the timer thread takes the mutex back each time round, but leaves it free for all of `mTime` in
`wait_for()`, whose unlock wakes who sleeps for it. `StopReturns` begins at that wait. Whether a client ever gets `mItfMutex` is not assumed, and
nothing is said of one that waits for it. `DomainList` and `Log` have no
liveness property and state no fairness.

### What the code does not do

1. **A ring deleted with its thread running** (`handler_ring_error_deletion`).
   `close()` posted by `onError()` holds no lock: its `release()` has gone
   through the vector when `onBind()` pushes the next ring, and clears it.
2. **An event read before it is written** (`ring_out_reorder`). `xen_wmb()`
   comes after `in_prod++`, not before.
3. **A failed start is retried without end** (`backend_retry`). The handler whose
   `start()` throws is not listed, its device is watched, and its destructor writes
   the store, which fires the watch that leads to the next attempt. That one fails
   because the device is watched, and writes the store.

The code has further corners that the properties step round. They are part of
the models, and each is why a property is worded as it is:

- A ring that fails while `onBind()` runs may leave the handler `Connected` with no
  ring: `ConnectedIsServed` is about handlers with `ringErrors = 0`, and `ErrorCloses`
  about rings that the vector holds.
- A `Closing` the toolstack writes between `checkIfExist()` and the handler's write is
  overwritten; `IdleAgreement` holds all the same.
- A device removed and created again before its event is read keeps its old
  handler; `FollowsStore` is about a handler of any life of its device.
- Two threads in `XenEvtchn::stop()` of one ring, `stop()` beside a posted `close()`, both
  join its thread. `StopReturns` of `RingErrors` has `~alive` for that.
- `poll()` that a signal interrupts sends its thread into a read that blocks until
  there is an event, out of `stop()`'s reach: `Blocked`, in `StopReturns` of the handler, of
  the backend and of `RingErrors`.
- A handler whose `stop()` throws when its frontend has gone stays listed, is watched no more,
  and ends the watch thread of the backend: `ListedIsWatched` has that one exception.
- `checkIfExist()` is false after any error of `xs_read()`. The handler then does not write its state,
  or does not look into an event; the backend deletes the handler of a frontend that is there. `IdleAgreement`
  and `DroppedOnlyIfGone` are about runs where that has not happened (`~misread`).
- `Initialising` written to the backend's node from outside while it is `Connected` makes it
  `InitWait` without a release, and the next bind adds rings to those it has. No property forbids it.
- `AsyncContext::stop()` before the thread has first looked at `mTerminate` drops what was
  posted; later, what is posted is run.
- `stop()` of a one-shot timer waits for the timeout, and the callback is made; the
  timer cannot be started again (`OneShotOnce`, `CallsBack`). A callback that calls `stop()` or
  lets its object stop its own timer is outside the model; the code would join itself.
- Two log lines at a time can throw on their padding (`OnlyRaceThrows`). Masks are added to those set
  before, and one with a bad level takes all away (`MaskDecides`).
- `in_prod % mNumEvents` jumps when `in_prod` wraps, unless `mNumEvents` divides 2^32; the
  indices of `ring_out` wrap at a multiple. The 63 events of the tests' page do not.

The properties that hold say under what condition they do: with `faults = 0`,
`ringErrors = 0`, `~misread`. These conditions are about what has happened so far, not about
what may, so the passing runs do check what later failures leave.

The documentation's state diagram (`FrontendHandlerBase.hpp:62-74`) has no edge
out of `Closed`, and none from `Initialising` to `Connected`; the code has both
(`close(InitWait)`, `onStateConnected()`), and `BackendLifecycle` follows it.

## Proofs

A run checks a small instance; a theorem holds for every value of the constants. Every
safety property that a passing run checks is
a theorem. Each module proves one inductive invariant, `IInv` (theorem `Invariance`), with
one lemma per group of actions, and derives the properties from it; TLC checked each
`IInv` on the run's instance too. Unless said otherwise a
theorem's hypotheses are the `ASSUME` of the module it is about, which bounds nothing but the kind of
each constant.

| Module | Theorem | Property | Further hypotheses |
|---|---|---|---|
| `FrontendHandler_proofs` | `TypeCorrect`, `StopCloses`, `DeletesStopped`, `IdleAgrees` | `TypeOK`, `StoppedIsClosed`, `DeletedOnlyStoppedUnlessFailed`, `IdleAgreement` | |
| | `OneRelease` | `asyncCalls = 0 => ReleaseExclusive` | |
| | `ConnectedServed` | `ConnectedIsServed` | `onBind()` makes a ring; the toolstack never writes `Connected` |
| | `LifecycleSafety`, `ReleasesExclusive` | implements `BackendLifecycle`; `ReleaseExclusive` | as `handler_refines`: nothing fails, nobody else writes the node, rings for one bind |
| | `NoLockCycle` | (`StopReturns`) | |
| `RingBufferIn_proofs` | `TypeCorrect`, `NoOverflow`, `NoneStranded` | `TypeOK`, `NoFalseOverflow`, `NothingStranded` | |
| | `ChannelSafety` | implements `RequestChannel` | |
| `RingBufferOut_proofs` | `TypeCorrect` | `TypeOK` | |
| | `QueueSafety` | implements `EventQueue` | stores in program order; `NumEvents` divides `IndexMod` |
| | `OneSenderInOrder` | `NoStaleEvent` | one sender; as for `QueueSafety` |
| `RingErrors_proofs` | `TypeCorrect`, `CallbackSafe`, `NoLeak`, `InOrder` | `RingTypeOK`, `CallbackHasRing`, `NothingLeaks`, `CallsInOrder` | |
| | `StopIsHeard` | (`StopReturns`) | |
| `Backend_proofs` | `TypeCorrect`, `ListsWatched`, `Survives`, `DroppedGone` | `TypeOK`, `ListedIsWatched`, `ThreadSurvives`, `DroppedOnlyIfGone` | |
| | `StopIsBounded` | (`StopReturns`) | |
| `DomainList_proofs` | `TypeCorrect`, `ListedOnce`, `NoneMissed`, `RunningListed` | `TypeOK`, `Ascending`, `Complete`, `RunningDoms` | |
| `Log_proofs` | `TypeCorrect`, `LastItemDecides`, `OneThreadPads` | `TypeOK`, `MaskDecides`, `OnlyRaceThrows` | |
| `Timer_proofs` | `TypeCorrect`, `TerminatedIsQuiet`, `OneShotOnly` | `TypeOK`, `NoCallbackOnceTerminated`, `OneShotOnce` | |
| | `StopIsBounded` | (`StopReturns`) | |

That each `stop()` returns is liveness, which TLC checks. What of it is safety is
proved, by the four theorems with (`StopReturns`): they state formulas of the proof modules.

### The handler

`StoppedIsClosed` is not inductive: that nothing is left when `stop()` returns
depends on what the asynchronous thread may still do. `IInv` adds

- `ControlInv`: no thread is where only another can be, and a routine returns
  to a place of its own thread;
- `OwnerInv`: the owner holds `mMutex` exactly in the `close()` of `stop()` and the
  two steps after it, and that `close()` ends in `Closed`;
- `WatchInv`: from the lock that `stop()` takes on the watch thread is gone, before
  `start()` there is none, and it pushes only rings it has yet to add;
- `AsyncInv`: a posted call that runs is still counted and closes to `Closed`, and the
  thread has ended when `stop()` has returned;
- `CloseInv`: from that lock on, some `close()`, the owner's or the posted one,
  has still to set `Closed`, or the state is `Closed`. Neither `close()` alone
  leaves it there, as each may set `Closing` after the other's `Closed`; whoever sets
  `Closing` sets `Closed` later;
- `RingInv`: a ring that exists is in the vector or in the hands of
  `addRingBuffer()`, and there is none once `stop()` has cleared the vector.

The other theorems each add an invariant of their own to `IInv`, so that none carries more
than it needs:

- `LockInv`: the watch thread holds `mMutex` exactly while it is in a callback, and the watches are gone when
  `stop()` waits for it. With `IInv` that is `NobodyBlocked`: `mMutex` is free whenever the watch
  thread wants it, and when `stop()` does; `stop()` holds it while it joins the thread of
  `mAsyncContext`, which has been told to end and never locks it.
- `DeleteInv`: whoever is about to clear the vector has stopped every ring of it. It holds
  only while no ring has failed, as then a posted `close()` means that the watch
  thread, which adds rings, is dead.
- `AgreeInv`: as long as nothing was misread, a node that differs from `mBackendState` has its event in the queue, or the
  watch thread is between reading the node and settling it, or a thread has set the
  state and is about to write it; and what the watch thread has read is the node, or
  there is another event.
- `ConnectInv`: a node that says `Connected` is backed by the state, or a thread is about to
  write `Closing` (`NodeInv`); only the watch thread sets `Connected`, after
  `onBind()` has made its rings (`SetInv`, `BindInv`); a `close()` that has come to
  its end has turned the node (`TurnedInv`); and so `ServedInv`.
- `LifeInv`: the node is the state unless a thread is about to write it, that thread sets only
  what may follow (`Legal`), and rings are served from `onBind()` to the release. The
  refinement is then step by step: a write of the node is the abstract step
  of that write, the first ring of `onBind()` is `Serve`, the clearing of the vector is
  `Release`, and all other steps stutter.

### The rings

An index that wraps says little alone. `IInv` of `RingBufferIn_proofs` places all of them
at a distance behind the frontend's private producer, which stands for the number
of requests made, and so turns their cyclic order into an order of integers
(`OrderInv`). What a slot holds then follows from that number (`SlotInv`), the
requests taken and not answered are as many as the indices say (`HandInv`), and two
invariants say what `req_event` and `rsp_event` are while their owner sleeps and that whoever
pushed past them has yet to notify. `ChannelSafety` is about windows of the
slots: which step takes the head off one, which appends, and why a write outside
leaves one as it is; that last is where the ring size matters.

`RingBufferOut_proofs` says what may wait in a store buffer (`StoreInv`) and how many events the page
holds (`HeldInv`). The proof showed that the first assumption of the module was too weak: `sendEvent()`
casts `in_prod - in_cons` to `int`, which makes a full buffer look negative, and so not full, when `NumEvents` is half of
the index range. `EventAssumption` has `NumEvents < IndexMod \div 2` now; a page's worth of events is far
below 2^31. `QueueSafety` needs that `NumEvents` divides the index range: where it does
not, the slots jump when `in_prod` wraps (see above). `OneSenderInOrder` is what `ring_out_reorder`
refutes: with stores in program order the same statement is a theorem.

### A ring that fails while it is let go of

`IInv` of `RingErrors_proofs` has `OrderInv` (the list of calls is what has been posted and not yet
taken, element by element), `StopInv` (a `stop()` that waits for the event thread has written a byte
which that thread has still to read, `StopHeard`, and one that has come to its end leaves no event thread), `WhereInv` (who is where in `release()`; a thread clears the vector only if the event thread has
ended or the vector is empty for good) and `HeldInv` (the ring is complete until the
thread that dropped the last reference deletes it). Nothing is assumed of the undefined join by two threads: the theorems hold for
each outcome the process survives.

### Discovery

`IInv` of `Backend_proofs` has `PathInv`: the place of the watch thread says whether its locals
are domains or devices, so a watch it sets or clears is known to be of the one or the other. `ListInv`:
a domain that is watched is listed, always, so that no watch is set twice; until the first `stop()` also the converse,
a listed handler is watched or the one being deleted, at the end of the watch thread too if that threw,
and a handler about to be listed is watched already. `ThreadInv`: where the owner is in `stop()` says
whether the pipe holds a byte and whether the thread runs. `GenInv`: a handler is never ahead of its device, and
behind it once `frontendPathChanged()` has seen the node missing and it has come back. `EventInv` is the hard part of
the types: `Fire` appends each token once (lemma `Fires`), which needs that the watches are
finitely many. That a device is a pair `<<dom, dev>>`, and that there is one, is assumed
(`BackendAssumption`): `Init` names one to have a value for `new`.

`StopIsBounded` is about a measure: where the watch thread is in its loop (`Phase`), how many entries of
the directory are left, and how far it is with the current one (`Stage`). While
`stop()` waits every step of that thread lowers it, as the byte in the pipe comes before the events (`ThreadInv`), and
nobody else touches it, signals apart; `FiniteInv` has the directories finite. So `stop()` waits for the rest of one callback at most, however
many events are pending; only an interrupted `poll()` makes the thread read one more event, or wait for one.

### Domains, log and timers

`IInv` of `DomainList_proofs` adds to `Ascending` that a domain is now in a state it has
been in since the call began (`Remembered`) and `Covered`: what lies below `startDomain` and
has existed all the time is listed, and so is everything once a chunk was not
full. `ReadChunkInv` is the step that matters: a domain at or above `startDomain` is in the
chunk, or the chunk was full and ends below it, and then it lies at or above the new `startDomain`.
`RunningDoms` then is about the loop of `XenStat` (`ListingLists`).

That loop, and the one of `setLogLevelByMask()`, are recursive functions, which the provers see as
`CHOOSE f : f = [...]`. So both modules first prove that such a function exists and is what its
definition says (`ListingDef`, `LoopDef`), and then what it computes, each by induction. The
induction theorems of the library are about operators, which no prover here can instantiate;
`Induction` is about a set of numbers instead, and follows from `LeastNumber`, which the library's
theorem that `<` is well founded gives.

`IInv` of `Log_proofs` has `ItemsInv` (the items are those of the accepted masks, parsed one by one, and none
has a level that is none) and `PadInv`: until an assignment came while another thread was
at the length, a line about to be padded is no longer than the longest. `LoopDecides` is what `MaskDecides` rests on.

In `Timer_proofs`, `LockedInv` says that the thread holds `mMutex` only while `mTerminate` is not set:
`stop()` of a periodic timer needs that mutex to set it. `OneShotInv` says that `mTerminate` of a one-shot timer
once started is never set again. `StartInv` is there for the bound on starts. `JoinInv`: who waits for a
periodic timer's thread has told it to end; so each step brings that thread nearer to its end
(`StopEnds`), of at most four.

### Only model-checked

- Liveness, and the fairness in the refinements: `StopReturns`, `FrontendServed`, `FollowsStore`,
  `ErrorCloses`, `NotificationServed`, `CallsBack`, and that `ImplementsLifecycle`, `ImplementsChannel` and
  `ImplementsQueue` also make progress. The proof system does neither fairness nor `ENABLED`; the theorems
  above are about the safety part of the abstract specifications.

## Not modelled, and the plan

- The DMA classes of `XenGnttab.cpp` (`XenGnttabDmaBufferExporter`, `...Importer`): compiled only with
  `GNTDEV_DMA_FLAG_WC`. `waitForReleased()` passes the driver the number of a descriptor the library has
  closed; what that does is the driver's affair, and the rest is one call each.
- `Exception`, the `Utils` that format domain ids and states, the version: values without
  state. `readUint()`, `writeUint()` and `removePath()` of `XenStore`: single requests that nothing in the
  library makes. `getDomainPath()`: its answer is a constant part of each path.
- The example: a client, whose `onBind()` and `processRequest()` are among those the models allow.
- Errors of what cannot be answered: of `PollFd::stop()`'s write to its pipe, of `xs_read_watch()` (the thread would
  loop), and a handler's `stop()` that throws in a destructor of the backend's (the process ends).
  `start()` of the handler that fails at its second `setWatch()` leaves the first watch set; its events have no
  thread to read them, so `StartFails` leaves the watch out.
- The handler composed with a whole ring of requests; each knows the other as what it needs of it (an
  event thread, a page).

What is left open: liveness is checked on small instances and not proved; no run composes a handler
with whole rings; `sendResponse()` takes no lock, and the model has one thread at a time answer on a
ring, as the class leaves the rest to its client; and the hazards that `PROJECT.json` lists with no
property, each with a note that says what is taken as given (what the page holds when a backend comes
back, the driver, numbers of 16 bits, a client that calls `stop()`).
