------------------------------- MODULE Backend -------------------------------
(***************************************************************************)
(* BackendBase and the XenStore object it owns: how frontends are found    *)
(* and forgotten.                                                          *)
(*                                                                         *)
(* The owner thread calls start(), stop() and the destructor.  The watch   *)
(* thread of mXenStore pops events and runs domainListChanged(),           *)
(* deviceListChanged() and frontendPathChanged(), which set and clear more *)
(* watches.  The toolstack creates and removes the nodes below             *)
(* mFrontendsPath.  A path is the sequence of its elements below           *)
(* mFrontendsPath: <<>>, <<dom>> or <<dom, dev>>.  The client is that of   *)
(* the example: onNewFrontend() constructs a handler and hands it to       *)
(* addFrontendHandler().                                                   *)
(***************************************************************************)
EXTENDS Naturals, FiniteSets, SequencesExt

CONSTANTS
  Devices,      \* the <<dom, dev>> there may be
  MaxChanges,   \* bound: devices created and paths removed by the toolstack
  MaxStarts,    \* bound: calls of start()
  MaxInterrupts, \* bound: poll() interrupted by a signal
  MaxFaults     \* bound: calls of the store, of poll() and of handlers that fail

ASSUME BackendAssumption ==
  /\ Devices # {} /\ \A dev \in Devices : dev = <<dev[1], dev[2]>>
  /\ {MaxChanges, MaxStarts, MaxInterrupts, MaxFaults} \subseteq Nat

Domains == {<<dev[1]>> : dev \in Devices}
Root    == <<>>
Path    == {Root} \union Domains \union Devices

VARIABLES
  nodes,               \* the paths there are in the store
  gen,                 \* how often each device was created
  events,              \* the watch events (tokens) not yet read
  mWatches,            \* the paths watched
  mStarted, pipe,      \* of the XenStore; the bytes in the pipe of mPollFd
  mDomainList, mFrontendHandlers,
  ownerPc, watchPc,
  path, todo, new,     \* locals of the watch thread: the token, what is left
                       \* of the directory read, the handler under construction
  changes, starts, interrupts, faults,
  misread              \* a frontend that is there was taken for gone

xenstore == <<nodes, gen>>
lists    == <<mDomainList, mFrontendHandlers>>
locals   == <<path, todo, new>>
thread   == <<mStarted, pipe>>
bounds   == <<changes, starts, interrupts, faults, misread>>
vars     == <<xenstore, events, mWatches, thread, lists, ownerPc, watchPc,
              locals, bounds>>

\* The incarnation of a device a handler was made for.
Handler(dev) == [dev |-> dev, gen |-> gen[dev]]
Handlers == [dev : Devices, gen : 0 .. MaxChanges]
Served   == {h.dev : h \in mFrontendHandlers}
Child(p, q) == Len(q) = Len(p) + 1 /\ IsPrefix(p, q)
-----------------------------------------------------------------------------
(* The store and its watches *)

\* The tokens in S become pending, in an order xenstored is free to choose.
\* One that is pending already is not put in twice: a callback reads the
\* store when it runs, so the second would find what the first has seen.
Fire(S) ==
  \E fired \in SetToSeqs(S \ ToSet(events)) : events' = events \o fired

\* A change of a node is told to the watches of the node and of its parents,
\* its removal to those below it too.
WatchesAbove(p) == {w \in mWatches : IsPrefix(w, p)}
WatchesOf(p)    == {w \in mWatches : IsPrefix(w, p) \/ IsPrefix(p, w)}

CountFault ==
  /\ faults < MaxFaults
  /\ faults' = faults + 1
  /\ UNCHANGED <<changes, starts, interrupts>>
Fault   == CountFault /\ UNCHANGED misread
Misread == CountFault /\ misread' = TRUE

\* Watching a path fires once at once; a path cannot be watched twice.
SetWatch(p) ==
  /\ p \notin mWatches
  /\ mWatches' = mWatches \union {p}
  /\ Fire({p})
  /\ UNCHANGED bounds
SetWatchThrows(p) ==
  /\ IF p \in mWatches THEN UNCHANGED bounds ELSE Fault
  /\ UNCHANGED mWatches

ClearWatch(p) == mWatches' = mWatches \ {p}

\* A handler writes the state of its device when it is made and when it is
\* stopped, if the node is there.  What else it does, and how that may fail,
\* is the subject of FrontendHandler.
HandlerWrites(dev) == IF dev \in nodes THEN Fire(WatchesAbove(dev))
                                       ELSE UNCHANGED events

Goto(l) == watchPc' = l
-----------------------------------------------------------------------------
(* The owner *)

\* The watch thread runs before there is a watch.  The queue of the store
\* outlives stop(); so does a byte of the pipe that nobody read.
Start ==
  /\ ownerPc \in {"new", "down"}
  /\ starts < MaxStarts
  /\ starts' = starts + 1
  /\ mStarted' = TRUE
  /\ Goto("poll")
  /\ ownerPc' = "watch"
  /\ UNCHANGED <<xenstore, events, mWatches, pipe, lists, locals,
                 changes, interrupts, faults, misread>>

\* If it throws, the owner is left with a thread and no watch.
WatchFrontendsPath ==
  /\ ownerPc = "watch"
  /\ ownerPc' = "up"
  /\ \/ SetWatch(Root)
     \/ SetWatchThrows(Root) /\ UNCHANGED events
  /\ UNCHANGED <<xenstore, thread, lists, watchPc, locals>>

ClearWatches ==
  /\ ownerPc = "up"
  /\ ownerPc' = "signal"
  /\ mWatches' = {}
  /\ UNCHANGED <<xenstore, events, thread, lists, watchPc, locals, bounds>>

\* Mutant: stop() that joins a thread nobody told to end
SignalNothing ==
  /\ ownerPc = "signal"
  /\ ownerPc' = "join"
  /\ UNCHANGED <<xenstore, events, mWatches, thread, lists, watchPc, locals, bounds>>

Signal ==
  /\ ownerPc = "signal"
  /\ ownerPc' = "join"
  /\ pipe' = pipe + 1
  /\ UNCHANGED <<xenstore, events, mWatches, mStarted, lists, watchPc, locals, bounds>>

Join ==
  /\ ownerPc = "join"
  /\ watchPc = "dead"
  /\ ownerPc' = "down"
  /\ mStarted' = FALSE
  /\ UNCHANGED <<xenstore, events, mWatches, pipe, lists, watchPc, locals, bounds>>

\* The destructor, after its call of stop(); no watch is left to hear the
\* handlers write their nodes.
Destroy ==
  /\ ownerPc \in {"new", "down"}
  /\ ownerPc' = "gone"
  /\ mFrontendHandlers' = {}
  /\ UNCHANGED <<xenstore, events, mWatches, thread, mDomainList, watchPc,
                 locals, bounds>>

Owner == WatchFrontendsPath \/ Signal \/ Join
-----------------------------------------------------------------------------
(* watchesThread() *)

\* Mutant: poll() that does not read the byte
TerminateNoRead ==
  /\ watchPc = "poll"
  /\ pipe > 0
  /\ Goto("dead")
  /\ UNCHANGED <<xenstore, events, mWatches, thread, lists, ownerPc, locals, bounds>>

\* The pipe comes before the store's own descriptor.
Terminate ==
  /\ watchPc = "poll"
  /\ pipe > 0
  /\ pipe' = pipe - 1
  /\ Goto("dead")
  /\ UNCHANGED <<xenstore, events, mWatches, mStarted, lists, ownerPc, locals, bounds>>

\* EINTR: poll() returns true, whatever there is or is not to read.
PollInterrupted ==
  /\ watchPc = "poll"
  /\ interrupts < MaxInterrupts
  /\ interrupts' = interrupts + 1
  /\ Goto("read")
  /\ UNCHANGED <<xenstore, events, mWatches, thread, lists, ownerPc, locals,
                 changes, starts, faults, misread>>

\* poll(), or read() of the byte, throws.
PollFails ==
  /\ watchPc = "poll"
  /\ Fault
  /\ Goto("dead")
  /\ UNCHANGED <<xenstore, events, mWatches, thread, lists, ownerPc, locals>>

\* readXsWatch(), which blocks until there is an event, and getWatchCallback():
\* an event of a watch that was cleared finds no callback.
ReadWatch ==
  /\ watchPc = "read" \/ (watchPc = "poll" /\ pipe = 0)
  /\ events # <<>>
  /\ events' = Tail(events)
  /\ path' = Head(events)
  /\ IF path' \notin mWatches THEN Goto("poll")
       ELSE Goto(CASE path' = Root       -> "domains"
                   [] path' \in Domains  -> "devices"
                   [] path' \in Devices  -> "frontend")
  /\ UNCHANGED <<xenstore, mWatches, thread, lists, ownerPc, todo, new, bounds>>

\* An error of xs_directory() reads as an empty directory.
ReadDirectory(here, next) ==
  /\ watchPc = here
  /\ \/ todo' = {p \in nodes : Child(path, p)} /\ UNCHANGED bounds
     \/ todo' = {} /\ Fault
  /\ Goto(next)
  /\ UNCHANGED <<xenstore, events, mWatches, thread, lists, ownerPc, path, new>>

EndOfDirectory ==
  /\ watchPc \in {"eachDomain", "eachDevice"}
  /\ todo = {}
  /\ Goto("poll")
  /\ UNCHANGED <<xenstore, events, mWatches, thread, lists, ownerPc, locals, bounds>>
-----------------------------------------------------------------------------
(* domainListChanged() *)

DomainListChanged == ReadDirectory("domains", "eachDomain")

\* An exception leaves the callback, and with it the watch thread.
EachDomain ==
  /\ watchPc = "eachDomain"
  /\ \E dom \in todo :
       /\ todo' = todo \ {dom}
       /\ \/ /\ dom \in mDomainList
             /\ Goto("eachDomain")
             /\ UNCHANGED <<events, mWatches, mDomainList, bounds>>
          \/ /\ dom \notin mDomainList
             /\ SetWatch(dom)
             /\ mDomainList' = mDomainList \union {dom}
             /\ Goto("eachDomain")
          \/ /\ dom \notin mDomainList
             /\ SetWatchThrows(dom)
             /\ Goto("dead")
             /\ UNCHANGED <<events, mDomainList>>
  /\ UNCHANGED <<xenstore, thread, mFrontendHandlers, ownerPc, path, new>>
-----------------------------------------------------------------------------
(* deviceListChanged() *)

\* checkIfExist() is false after any error of xs_read().
DeviceListChanged ==
  /\ watchPc = "devices"
  /\ \/ path \in nodes /\ Goto("readDevices") /\ UNCHANGED bounds
     \/ /\ IF path \in nodes THEN Fault ELSE UNCHANGED bounds
        /\ Goto(IF path \in mDomainList THEN "forget" ELSE "poll")
  /\ UNCHANGED <<xenstore, events, mWatches, thread, lists, ownerPc, locals>>

\* Mutant: the domain is erased from the list, its watch stays
ForgetKeepWatch ==
  /\ watchPc = "forget"
  /\ mDomainList' = mDomainList \ {path}
  /\ Goto("poll")
  /\ UNCHANGED <<xenstore, events, mWatches, thread, mFrontendHandlers, ownerPc,
                 locals, bounds>>

\* Mutant: the watch is cleared, the domain stays in the list
ForgetKeepDomain ==
  /\ watchPc = "forget"
  /\ ClearWatch(path)
  /\ Goto("poll")
  /\ UNCHANGED <<xenstore, events, thread, lists, ownerPc, locals, bounds>>

ForgetDomain ==
  /\ watchPc = "forget"
  /\ ClearWatch(path)
  /\ mDomainList' = mDomainList \ {path}
  /\ Goto("poll")
  /\ UNCHANGED <<xenstore, events, thread, mFrontendHandlers, ownerPc, locals, bounds>>

ReadDevices == ReadDirectory("readDevices", "eachDevice")

EachDevice ==
  /\ watchPc = "eachDevice"
  /\ \E dev \in todo :
       /\ todo' = todo \ {dev}
       /\ IF dev \in Served THEN Goto("eachDevice") /\ UNCHANGED new
                            ELSE Goto("construct") /\ new' = Handler(dev)
  /\ UNCHANGED <<xenstore, events, mWatches, thread, lists, ownerPc, path, bounds>>

\* onNewFrontend(): the constructor throws if it cannot read the store, which
\* it may not if the device has gone, or cannot write it; deviceListChanged()
\* catches it.
Construct ==
  /\ watchPc = "construct"
  /\ new' = Handler(new.dev)
  /\ \/ Goto("add") /\ HandlerWrites(new.dev) /\ UNCHANGED bounds
     \/ /\ IF new.dev \in nodes THEN Fault ELSE UNCHANGED bounds
        /\ Goto("eachDevice")
        /\ HandlerWrites(new.dev) \/ UNCHANGED events
  /\ UNCHANGED <<xenstore, mWatches, thread, lists, ownerPc, path, todo>>

\* addFrontendHandler(): if setWatch() throws, the handler is deleted and
\* the next device is looked at.
AddFrontendHandler ==
  /\ watchPc = "add"
  /\ \/ SetWatch(new.dev) /\ Goto("start")
     \/ SetWatchThrows(new.dev) /\ Goto("eachDevice") /\ HandlerWrites(new.dev)
  /\ UNCHANGED <<xenstore, thread, lists, ownerPc, locals>>

\* Mutant: start() of the handler not called, nor the list extended
ForgetToAdd ==
  /\ watchPc = "start"
  /\ Goto("eachDevice")
  /\ UNCHANGED <<xenstore, events, mWatches, thread, lists, ownerPc, locals, bounds>>

\* If start() of the handler throws, the watch stays.
StartHandler ==
  /\ watchPc = "start"
  /\ Goto("eachDevice")
  /\ \/ /\ mFrontendHandlers' = mFrontendHandlers \union {new}
        /\ UNCHANGED <<events, bounds>>
     \/ Fault /\ HandlerWrites(new.dev) /\ UNCHANGED mFrontendHandlers
  /\ UNCHANGED <<xenstore, mWatches, thread, mDomainList, ownerPc, locals>>
-----------------------------------------------------------------------------
(* frontendPathChanged() *)

\* Mutant: the callback does not look whether the node is there
FrontendPathGone ==
  /\ watchPc = "frontend"
  /\ Goto("unwatch")
  /\ UNCHANGED <<xenstore, events, mWatches, thread, lists, ownerPc, locals, bounds>>

FrontendPathChanged ==
  /\ watchPc = "frontend"
  /\ \/ path \in nodes /\ Goto("poll") /\ UNCHANGED bounds
     \/ /\ IF path \in nodes THEN Misread ELSE UNCHANGED bounds
        /\ Goto("unwatch")
  /\ UNCHANGED <<xenstore, events, mWatches, thread, lists, ownerPc, locals>>

UnwatchFrontend ==
  /\ watchPc = "unwatch"
  /\ ClearWatch(path)
  /\ Goto("delete")
  /\ UNCHANGED <<xenstore, events, thread, lists, ownerPc, locals, bounds>>

\* stop() of the handler writes its node, if the device is there again.  If it
\* throws, the handler stays in the list, and nothing catches the exception
\* but the end of the watch thread.
DeleteHandler ==
  /\ watchPc = "delete"
  /\ \/ /\ mFrontendHandlers' = {h \in mFrontendHandlers : h.dev # path}
        /\ IF path \in Served THEN HandlerWrites(path) ELSE UNCHANGED events
        /\ Goto("poll")
        /\ UNCHANGED bounds
     \/ /\ path \in Served /\ Fault
        /\ Goto("dead")
        /\ HandlerWrites(path) \/ UNCHANGED events
        /\ UNCHANGED mFrontendHandlers
  /\ UNCHANGED <<xenstore, mWatches, thread, mDomainList, ownerPc, locals>>

Watch ==
  \/ Terminate \/ PollFails \/ ReadWatch \/ EndOfDirectory
  \/ DomainListChanged \/ EachDomain
  \/ DeviceListChanged \/ ForgetDomain \/ ReadDevices \/ EachDevice
  \/ Construct \/ AddFrontendHandler \/ StartHandler
  \/ FrontendPathChanged \/ UnwatchFrontend \/ DeleteHandler
-----------------------------------------------------------------------------
(* The toolstack *)

Change ==
  /\ changes < MaxChanges
  /\ changes' = changes + 1
  /\ UNCHANGED <<starts, interrupts, faults, misread>>

\* A handler that writes its node when it has just been removed does the same:
\* no transaction spans its check and its write.
AddDevice(dev) ==
  /\ dev \notin nodes
  /\ Change
  /\ nodes' = nodes \union {dev, <<dev[1]>>}
  /\ gen' = [gen EXCEPT ![dev] = @ + 1]
  /\ Fire(WatchesAbove(dev))
  /\ UNCHANGED <<mWatches, thread, lists, ownerPc, watchPc, locals>>

RemovePath(p) ==
  /\ p \in nodes
  /\ Change
  /\ nodes' = {q \in nodes : ~IsPrefix(p, q)}
  /\ Fire(WatchesOf(p))
  /\ UNCHANGED <<gen, mWatches, thread, lists, ownerPc, watchPc, locals>>

Toolstack == (\E dev \in Devices : AddDevice(dev)) \/ (\E p \in Path : RemovePath(p))
-----------------------------------------------------------------------------
Init ==
  /\ nodes = {} /\ gen = [dev \in Devices |-> 0]
  /\ events = <<>> /\ mWatches = {} /\ mStarted = FALSE /\ pipe = 0
  /\ mDomainList = {} /\ mFrontendHandlers = {}
  /\ ownerPc = "new" /\ watchPc = "dead"
  /\ path = Root /\ todo = {}
  /\ new = Handler(CHOOSE dev \in Devices : TRUE)
  /\ changes = 0 /\ starts = 0 /\ interrupts = 0 /\ faults = 0 /\ misread = FALSE

\* After an interrupted poll() the watch thread reads events, and there are none.
Blocked == watchPc = "read" /\ events = <<>>

\* A process that has deleted its backend, or waits with nothing to do, may stay
\* so; so may one whose watch thread is blocked, stop() waiting for it or not.
Idle == /\ \/ ownerPc \in {"up", "down", "gone"} /\ watchPc \in {"poll", "dead"}
           \/ ownerPc \in {"up", "join"} /\ Blocked
        /\ UNCHANGED vars

Next ==
  \/ Start \/ ClearWatches \/ Destroy \/ Owner
  \/ Watch \/ PollInterrupted
  \/ Toolstack \/ Idle

\* Threads run; nobody must stop the backend, nor change the store.
Fairness == WF_vars(Owner) /\ WF_vars(Watch)

Spec == Init /\ [][Next]_vars
FairSpec == Spec /\ Fairness
-----------------------------------------------------------------------------
(* Properties *)

TypeOK ==
  /\ nodes \subseteq Domains \union Devices
  /\ gen \in [Devices -> 0 .. MaxChanges]
  /\ events \in Seq(Path) /\ IsInjective(events)
  /\ mWatches \subseteq Path
  /\ mStarted \in BOOLEAN /\ pipe \in 0 .. MaxStarts
  /\ faults = 0 => pipe \in {0, 1}
  /\ mDomainList \subseteq Domains
  /\ mFrontendHandlers \subseteq Handlers
  /\ ownerPc \in {"new", "watch", "up", "signal", "join", "down", "gone"}
  /\ watchPc \in {"dead", "poll", "read", "domains", "eachDomain", "devices", "forget",
                  "readDevices", "eachDevice", "construct", "add", "start",
                  "frontend", "unwatch", "delete"}
  /\ path \in Path /\ todo \subseteq Path /\ new \in Handlers
  /\ changes \in 0 .. MaxChanges /\ starts \in 0 .. MaxStarts
  /\ interrupts \in 0 .. MaxInterrupts /\ faults \in 0 .. MaxFaults
  /\ misread \in BOOLEAN

Undisturbed == ownerPc = "up" /\ starts = 1 /\ faults = 0

\* Until stop(), what the two lists hold is what is watched, whatever failed:
\* the domains of mDomainList exactly, so that each is seen again if it goes
\* and comes back, and every frontend with a handler, so that its end is seen.
\* A frontend is listed and unwatched only while frontendPathChanged() deletes
\* its handler, and for good if that throws: then the watch thread has ended.
ListedIsWatched ==
  ownerPc \in {"watch", "up"} /\ starts = 1 =>
    /\ mDomainList = mWatches \intersect Domains
    /\ Served \subseteq mWatches
                        \union (IF watchPc \in {"delete", "dead"} THEN {path} ELSE {})

\* Neither what the toolstack does nor an earlier stop() ends the watch thread
\* of a started backend: it takes a failure of the store (no watch is set
\* twice, no byte of the pipe is left over).
ThreadSurvives ==
  ownerPc \in {"watch", "up"} /\ faults = 0 => watchPc # "dead"

\* A running backend deletes the handler only of a frontend that has gone,
\* though it may be there again, whatever fails but checkIfExist() itself.
DroppedOnlyIfGone ==
  [][~misread => \A h \in mFrontendHandlers \ mFrontendHandlers' :
       \/ h.dev \notin nodes \/ h.gen < gen[h.dev]
       \/ ownerPc' = "gone"]_vars

\* When the store stops changing, the frontends with a handler come to be
\* those there are, and stay so.
FollowsStore == <>[](Undisturbed => Served = nodes \intersect Devices)

\* stop() comes to its end, however many events are pending and whatever fails,
\* unless a signal had poll() return and the watch thread blocks in
\* xs_read_watch(), which the byte in the pipe does not wake.
StopReturns == ownerPc = "signal" ~> ownerPc = "down" \/ Blocked

\* The doc of onNewFrontend(): "Is called when new frontend detected".  When
\* no new ones appear (the toolstack's changes are bounded), the calls end.
CalledForNewFrontend == <>[](watchPc # "construct")
=============================================================================
