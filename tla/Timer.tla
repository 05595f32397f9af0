------------------------------- MODULE Timer -------------------------------
(***************************************************************************)
(* Timer: threads of the client call start() and stop() under mItfMutex;   *)
(* the timer's thread sleeps with mMutex free and makes the callback with  *)
(* mMutex held.  The passing of mTime is an action.                        *)
(***************************************************************************)
EXTENDS Naturals

CONSTANTS
  Clients,     \* threads that call start() and stop()
  MaxStarts,   \* bound: timer threads
  MaxFires     \* bound: callbacks

ASSUME TimerAssumption ==
  MaxStarts \in Nat /\ MaxFires \in Nat \ {0} /\ "none" \notin Clients

VARIABLES
  mPeriodic, mTerminate,
  mItfMutex,      \* "none" or the client that holds it
  thread,         \* where the timer's thread is
  pc,             \* where each client is
  starts, fires   \* threads made, callbacks made

vars == <<mPeriodic, mTerminate, mItfMutex, thread, pc, starts, fires>>

\* Mutant: the thread sleeps without letting mMutex go
LockedAsleep == thread \in {"wait", "due", "callback"}

\* mMutex is the timer's thread's from the end of its wait to the next.
Locked == thread \in {"due", "callback"}
Goto(c, l) == pc' = [pc EXCEPT ![c] = l]

Init ==
  /\ mPeriodic \in BOOLEAN /\ mTerminate = TRUE
  /\ mItfMutex = "none" /\ thread = "none"
  /\ pc = [c \in Clients |-> "idle"]
  /\ starts = 0 /\ fires = 0

LockItf(c) ==
  /\ pc[c] = "idle" /\ mItfMutex = "none"
  /\ mItfMutex' = c
  /\ \/ Goto(c, "stop")
     \/ starts < MaxStarts /\ Goto(c, "start")
  /\ UNCHANGED <<mPeriodic, mTerminate, thread, starts, fires>>

\* Mutant: the exception of a second start() leaves mItfMutex locked
StartLocked(c) ==
  /\ pc[c] = "start"
  /\ IF mTerminate
       THEN /\ starts' = starts + 1
            /\ mTerminate' = FALSE /\ thread' = "begin"
            /\ mItfMutex' = "none"
       ELSE UNCHANGED <<starts, mTerminate, thread, mItfMutex>>
  /\ Goto(c, "idle")
  /\ UNCHANGED <<mPeriodic, fires>>

\* A timer that has been started throws.
Start(c) ==
  /\ pc[c] = "start"
  /\ IF mTerminate
       THEN /\ starts' = starts + 1
            /\ mTerminate' = FALSE /\ thread' = "begin"
       ELSE UNCHANGED <<starts, mTerminate, thread>>
  /\ mItfMutex' = "none" /\ Goto(c, "idle")
  /\ UNCHANGED <<mPeriodic, fires>>

\* Mutant: mTerminate is set without mMutex
TerminateUnlocked(c) ==
  /\ pc[c] = "stop"
  /\ mTerminate' = (mTerminate \/ mPeriodic)
  /\ Goto(c, "join")
  /\ UNCHANGED <<mPeriodic, mItfMutex, thread, starts, fires>>

\* Only of a periodic timer: a one-shot one is left to expire.
Terminate(c) ==
  /\ pc[c] = "stop"
  /\ mPeriodic => ~Locked
  /\ mTerminate' = (mTerminate \/ mPeriodic)
  /\ Goto(c, "join")
  /\ UNCHANGED <<mPeriodic, mItfMutex, thread, starts, fires>>

Join(c) ==
  /\ pc[c] = "join" /\ thread \in {"none", "ended"}
  /\ thread' = "none"
  /\ mItfMutex' = "none" /\ Goto(c, "idle")
  /\ UNCHANGED <<mPeriodic, mTerminate, starts, fires>>

Stop(c) == Terminate(c) \/ Join(c)
-----------------------------------------------------------------------------
(* run() *)

Move(l) == thread' = l /\ UNCHANGED <<mPeriodic, mTerminate, mItfMutex, pc, starts, fires>>

Begin == thread = "begin" /\ Move(IF mTerminate THEN "ended" ELSE "wait")

\* wait_for() returns true,
Notified == thread = "wait" /\ mTerminate /\ Move("ended")

\* or false: the time is over and the condition does not hold.
Expire == thread = "wait" /\ ~mTerminate /\ Move("due")

Fire ==
  /\ thread = "due"
  /\ thread' = "callback"
  /\ fires' = IF fires < MaxFires THEN fires + 1 ELSE fires
  /\ UNCHANGED <<mPeriodic, mTerminate, mItfMutex, pc, starts>>

\* Mutant: the loop does not ask whether the timer is periodic
LoopAlways == thread = "callback" /\ Move(IF mTerminate THEN "ended" ELSE "wait")

\* Mutant: a periodic timer fires once
LoopNever == thread = "callback" /\ Move("ended")

\* The callback is over: while(!mTerminate && mPeriodic)
Loop == thread = "callback" /\ Move(IF ~mTerminate /\ mPeriodic THEN "wait" ELSE "ended")

Run == Begin \/ Notified \/ Expire \/ Fire \/ Loop

Next == Run \/ \E c \in Clients : LockItf(c) \/ Start(c) \/ Stop(c)

\* The threads are scheduled and time passes; nobody has to start or stop the
\* timer.  Strong fairness where stop() locks mMutex: a periodic timer takes it
\* back each time, but leaves it free for all of mTime, and the unlock of the
\* wait wakes whoever sleeps for it.
Fairness ==
  /\ WF_vars(Run)
  /\ \A c \in Clients : WF_vars(Start(c) \/ Join(c)) /\ SF_vars(Terminate(c))

Spec == Init /\ [][Next]_vars /\ Fairness
-----------------------------------------------------------------------------
(* Properties *)

\* Whoever holds mItfMutex is in start() or stop().
TypeOK ==
  /\ mPeriodic \in BOOLEAN /\ mTerminate \in BOOLEAN
  /\ thread \in {"none", "begin", "wait", "due", "callback", "ended"}
  /\ pc \in [Clients -> {"idle", "start", "stop", "join"}]
  /\ \A c \in Clients : pc[c] # "idle" <=> mItfMutex = c
  /\ starts \in 0..MaxStarts /\ fires \in 0..MaxFires

\* The timeout races stop(): once mTerminate is set no callback begins.
NoCallbackOnceTerminated == [][fires' # fires \/ thread' = "callback" => ~mTerminate]_vars

\* A one-shot timer's thread makes its callback at most once, and the timer is
\* never started again, stopped or not.
OneShotOnce == ~mPeriodic => starts <= 1 /\ fires <= 1

\* A timer that was started calls back, a periodic one over and over, unless
\* stopped; and a stop() of a one-shot timer does not prevent it.
CallsBack == thread \in {"begin", "wait", "callback"} ~>
               thread = "due" \/ (mTerminate /\ mPeriodic) \/ (~mPeriodic /\ fires = 1)

\* Once it has mItfMutex, stop() returns: it gets mMutex, which the thread of a
\* periodic timer holds again and again, and it waits for no thread that nobody
\* has told to end.
StopReturns == \A c \in Clients : pc[c] = "stop" ~> pc[c] = "idle"
=============================================================================
