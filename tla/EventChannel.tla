---------------------------- MODULE EventChannel ----------------------------
(***************************************************************************)
(* One RingBufferBase: its XenEvtchn with the event thread, the PollFd the *)
(* thread sleeps in, and the XenGnttabBuffer it works on.  The threads of  *)
(* Closers may be in stop() at the same time.  What the callback does is   *)
(* RingBufferIn's and RingBufferOut's affair; here it returns or throws.   *)
(***************************************************************************)
EXTENDS Naturals, FiniteSets

CONSTANTS
  Closers,         \* threads that call stop()
  MaxNotifies,     \* bound: notifications of the frontend
  MaxInterrupts,   \* bound: poll() interrupted by a signal
  MaxFaults        \* bound: errors of the event thread

ASSUME ChannelAssumption == {MaxNotifies, MaxInterrupts, MaxFaults} \subseteq Nat

VARIABLES
  held,        \* what the object holds: a subset of Resource
  mStarted,
  pipe,        \* bytes in mPollFd's pipe
  pending,     \* the channel is notified and not read
  thread,      \* where the event thread is
  joinable,    \* mThread.joinable()
  stopper,     \* where each closer is in stop()
  alive,       \* FALSE after std::terminate or a crash
  notifies, interrupts, faults

channel == <<held, mStarted, joinable, stopper, alive>>
events  == <<pipe, pending, thread>>
bounds  == <<notifies, interrupts, faults>>
vars    == <<channel, events, bounds>>

Resource == {"handle", "port", "pipe", "buffer"}
Thread   == {"none", "poll", "read", "unmask", "callback", "error", "ended"}
Running  == thread \notin {"none", "ended"}

Init ==
  /\ held = {} /\ mStarted = FALSE /\ joinable = FALSE /\ alive = TRUE
  /\ pipe = 0 /\ pending = FALSE /\ thread = "none"
  /\ stopper = [t \in Closers |-> "idle"]
  /\ notifies = 0 /\ interrupts = 0 /\ faults = 0
-----------------------------------------------------------------------------
(* The constructor and the destructor *)

Acquire(r) ==
  /\ held' = held \union {r}
  /\ UNCHANGED <<mStarted, joinable, stopper, alive, events, bounds>>

\* XenEvtchn::init()
OpenHandle == held = {} /\ Acquire("handle")
BindPort   == held = {"handle"} /\ Acquire("port")
\* PollFd::init()
OpenPipe   == held = {"handle", "port"} /\ Acquire("pipe")
\* XenGnttabBuffer::init()
MapBuffer  == held = Resource \ {"buffer"} /\ Acquire("buffer")

LetGo(rs) ==
  /\ held' = held \ rs
  /\ UNCHANGED <<mStarted, joinable, stopper, alive, events, bounds>>

\* XenGnttabBuffer::release()
ReleaseBuffer == LetGo({"buffer"})

\* Mutant: what an error after xenevtchn_open() leaves open
ReleaseBound == LetGo(IF "port" \in held THEN {"handle", "port"} ELSE {})

\* XenEvtchn::release(), of a constructor that has failed too: the port only
\* if it is bound, the handle if it is open
ReleaseChannel == LetGo({"handle", "port"})

\* PollFd::release()
ReleasePipe == LetGo({"pipe"})
-----------------------------------------------------------------------------
(* start() and stop() *)

Start ==
  /\ ~mStarted
  /\ mStarted' = TRUE /\ thread' = "poll" /\ joinable' = TRUE
  /\ UNCHANGED <<held, stopper, alive, pipe, pending, bounds>>

In(t, l) == stopper' = [stopper EXCEPT ![t] = l]

\* stop() called by t: back at once unless started
StopEnter(t) ==
  /\ stopper[t] = "idle"
  /\ In(t, IF mStarted THEN "signal" ELSE "stopped")
  /\ UNCHANGED <<held, mStarted, joinable, alive, events, bounds>>

\* Mutant: stop() does not wake the thread
NoSignal(t) ==
  /\ stopper[t] = "signal"
  /\ In(t, "join")
  /\ UNCHANGED <<held, mStarted, joinable, alive, events, bounds>>

\* PollFd::stop()
Signal(t) ==
  /\ stopper[t] = "signal"
  /\ pipe' = pipe + 1
  /\ In(t, "join")
  /\ UNCHANGED <<held, mStarted, joinable, alive, pending, thread, bounds>>

\* joinable(), and on to the wait in join().  A second thread that waits too,
\* or comes when the first has just been served, does what is undefined: it
\* throws, crashes, or goes on.
StopJoin(t) ==
  /\ stopper[t] = "join"
  /\ In(t, IF joinable THEN "wait" ELSE "clear")
  /\ alive' \in IF joinable /\ \E u \in Closers \ {t} : stopper[u] = "wait"
                  THEN BOOLEAN ELSE {TRUE}
  /\ UNCHANGED <<held, mStarted, joinable, events, bounds>>

\* Mutant: stop() does not wait for the thread
NoJoin(t) ==
  /\ stopper[t] = "wait"
  /\ joinable' = FALSE /\ In(t, "clear")
  /\ UNCHANGED <<held, mStarted, alive, events, bounds>>

Joined(t) ==
  /\ stopper[t] = "wait"
  /\ thread = "ended"
  /\ joinable' = FALSE /\ In(t, "clear")
  /\ UNCHANGED <<held, mStarted, alive, events, bounds>>

StopReturn(t) ==
  /\ stopper[t] = "clear"
  /\ mStarted' = FALSE /\ In(t, "stopped")
  /\ UNCHANGED <<held, joinable, alive, events, bounds>>

Stop(t) == Signal(t) \/ StopJoin(t) \/ Joined(t) \/ StopReturn(t)
-----------------------------------------------------------------------------
(* eventThread() *)

Move(l) ==
  /\ thread' = l
  /\ UNCHANGED <<channel, pipe, pending, bounds>>

\* Mutant: whatever wakes poll() is taken for the byte
PollAny ==
  /\ thread = "poll" /\ (pipe > 0 \/ pending)
  /\ pipe' = pipe - 1 /\ thread' = "ended"
  /\ UNCHANGED <<channel, pending, bounds>>

\* PollFd::poll(): the byte in the pipe before all else
PollPipe ==
  /\ thread = "poll" /\ pipe > 0
  /\ pipe' = pipe - 1 /\ thread' = "ended"
  /\ UNCHANGED <<channel, pending, bounds>>

PollEvent == thread = "poll" /\ pipe = 0 /\ pending /\ Move("read")

\* EINTR: poll() returns true with neither
PollInterrupted ==
  /\ thread = "poll"
  /\ interrupts < MaxInterrupts
  /\ interrupts' = interrupts + 1 /\ thread' = "read"
  /\ UNCHANGED <<channel, pipe, pending, notifies, faults>>

\* xenevtchn_pending() blocks until there is an event.
ReadPort ==
  /\ thread = "read" /\ pending
  /\ pending' = FALSE /\ thread' = "unmask"
  /\ UNCHANGED <<channel, pipe, bounds>>

\* xenevtchn_unmask() and the comparison of the port
Unmask == thread = "unmask" /\ Move("callback")

\* Mutant: the event that has come meanwhile is taken for served
CallbackClears ==
  /\ thread = "callback"
  /\ pending' = FALSE /\ thread' = "poll"
  /\ UNCHANGED <<channel, pipe, bounds>>

Callback == thread = "callback" /\ Move("poll")

\* An error of any of the four calls, or of the callback
Fail ==
  /\ Running /\ thread # "error"
  /\ faults < MaxFaults
  /\ faults' = faults + 1 /\ thread' = "error"
  /\ UNCHANGED <<channel, pipe, pending, notifies, interrupts>>

\* mErrorCallback() has returned; what it does is the composing module's
Reported == thread = "error" /\ Move("ended")

EventThread == PollPipe \/ PollEvent \/ ReadPort \/ Unmask \/ Callback

\* The frontend's xenevtchn_notify()
Notify ==
  /\ "port" \in held
  /\ notifies < MaxNotifies
  /\ notifies' = notifies + 1 /\ pending' = TRUE
  /\ UNCHANGED <<channel, pipe, thread, interrupts, faults>>
-----------------------------------------------------------------------------
TypeOK ==
  /\ held \subseteq Resource /\ thread \in Thread
  /\ {mStarted, joinable, alive, pending} \subseteq BOOLEAN
  /\ stopper \in [Closers -> {"idle", "signal", "join", "wait", "clear", "stopped"}]
  /\ pipe \in 0..2 * Cardinality(Closers)
=============================================================================
