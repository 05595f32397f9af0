---------------------------- MODULE Timer_proofs ----------------------------
(***************************************************************************)
(* For any number of clients, starts and timeouts: a Timer begins no       *)
(* callback once mTerminate is set, and a one-shot one begins one callback *)
(* and is started once.  And who has called stop() waits for a thread that *)
(* comes nearer to its end with every step.                                *)
(***************************************************************************)
EXTENDS Timer, TLAPS

\* The callback's thread holds mMutex, which a periodic timer's stop() needs.
LockedInv == Locked => ~mTerminate

\* mTerminate of a one-shot timer is never set again: that is what keeps a
\* second start() out, and what stop() has to wait for.
OneShotInv ==
  ~mPeriodic =>
    /\ mTerminate => starts = 0
    /\ starts = 0 => mTerminate /\ thread = "none" /\ fires = 0
    /\ starts <= 1 /\ fires <= 1
    /\ fires = 1 => thread \in {"callback", "ended", "none"}

\* Only who is in start() with mItfMutex makes a thread.
StartInv == \A c \in Clients : pc[c] = "start" => starts < MaxStarts

\* A periodic timer's thread has been told to end before it is waited for.
JoinInv == \A c \in Clients : pc[c] = "join" => mTerminate \/ ~mPeriodic

IInv == JoinInv /\ TypeOK /\ StartInv /\ LockedInv /\ OneShotInv

USE DEF Locked

\* The states of a timer that nobody has started.
LEMMA InitInv == Init => IInv
  BY TimerAssumption DEF Init, IInv, TypeOK, StartInv, JoinInv, LockedInv, OneShotInv

\* start() and stop() of any client keep the invariant: stop() sets mTerminate of
\* a periodic timer only, and never while the callback's thread holds mMutex.
LEMMA ClientInv ==
  ASSUME IInv, NEW c \in Clients, LockItf(c) \/ Start(c) \/ Stop(c)
  PROVE  IInv'
<1> USE TimerAssumption DEF IInv
<1>1. CASE LockItf(c)
  BY <1>1 DEF LockItf, Goto, TypeOK, StartInv, JoinInv, LockedInv, OneShotInv
<1>2. CASE Start(c)
  <2>1. mItfMutex = c /\ \A d \in Clients : d # c => pc[d] = "idle"
    BY <1>2 DEF Start, TypeOK
  <2>2. \A d \in Clients : pc'[d] = "idle"
    BY <1>2, <2>1 DEF Start, Goto, TypeOK
  <2>3. TypeOK' /\ StartInv' /\ JoinInv'
    <3>1. starts < MaxStarts /\ starts' \in {starts, starts + 1}
      BY <1>2 DEF Start, StartInv
    <3>2. starts' \in 0..MaxStarts
      BY <3>1 DEF TypeOK
    <3>3. mItfMutex' = "none" /\ pc' \in [Clients -> {"idle", "start", "stop", "join"}]
      BY <1>2 DEF Start, Goto, TypeOK
    <3>4. /\ mPeriodic' \in BOOLEAN /\ mTerminate' \in BOOLEAN
          /\ thread' \in {"none", "begin", "wait", "due", "callback", "ended"}
          /\ fires' \in 0..MaxFires
      BY <1>2 DEF Start, TypeOK
    <3> QED
      BY <2>2, <3>2, <3>3, <3>4 DEF TypeOK, StartInv, JoinInv
  <2>4. LockedInv' /\ OneShotInv'
    BY <1>2 DEF Start, TypeOK, LockedInv, OneShotInv
  <2> QED
    BY <2>3, <2>4
<1>3. CASE Terminate(c)
  BY <1>3 DEF Terminate, Goto, TypeOK, StartInv, JoinInv, LockedInv, OneShotInv
<1>4. CASE Join(c)
  BY <1>4 DEF Join, Goto, TypeOK, StartInv, JoinInv, LockedInv, OneShotInv
<1> QED
  BY <1>1, <1>2, <1>3, <1>4 DEF Stop

\* The timer's thread keeps it: what expires has not been told to end.
LEMMA RunInv ==
  ASSUME IInv, Run
  PROVE  IInv'
<1> USE TimerAssumption DEF IInv
<1>1. CASE Fire
  BY <1>1 DEF Fire, TypeOK, StartInv, JoinInv, LockedInv, OneShotInv
<1>2. CASE Begin \/ Notified \/ Expire \/ Loop
  BY <1>2 DEF Begin, Notified, Expire, Loop, Move, TypeOK, StartInv, JoinInv, LockedInv, OneShotInv
<1> QED
  BY <1>1, <1>2 DEF Run

\* Every state of the timer satisfies IInv.
THEOREM Invariance == Spec => []IInv
<1>1. IInv /\ [Next]_vars => IInv'
  <2> SUFFICES ASSUME IInv, [Next]_vars PROVE IInv'
    OBVIOUS
  <2>1. CASE UNCHANGED vars
    BY <2>1 DEF vars, IInv, TypeOK, StartInv, JoinInv, LockedInv, OneShotInv
  <2> QED
    BY <2>1, ClientInv, RunInv DEF Next
<1> QED
  BY <1>1, InitInv, PTL DEF Spec

\* Type correctness, and whoever is in start() or stop() holds mItfMutex alone.
THEOREM TypeCorrect == Spec => []TypeOK
<1>1. IInv => TypeOK
  BY DEF IInv
<1> QED
  BY <1>1, Invariance, PTL

\* A one-shot timer calls back at most once and is started at most once.
THEOREM OneShotOnly == Spec => []OneShotOnce
<1>1. IInv => OneShotOnce
  BY DEF IInv, OneShotInv, OneShotOnce
<1> QED
  BY <1>1, Invariance, PTL

\* No callback begins, or goes on, once mTerminate is set, though the timeout
\* races stop().
THEOREM TerminatedIsQuiet == Spec => NoCallbackOnceTerminated
<1>1. IInv /\ [Next]_vars => [fires' # fires \/ thread' = "callback" => ~mTerminate]_vars
  <2> SUFFICES ASSUME IInv, Next, fires' # fires \/ thread' = "callback"
               PROVE  ~mTerminate
    OBVIOUS
  <2>1. ASSUME NEW c \in Clients, LockItf(c) \/ Start(c) \/ Stop(c)
        PROVE  ~mTerminate
    BY <2>1 DEF LockItf, Start, Stop, Terminate, Join, IInv, LockedInv
  <2>2. CASE Run
    BY <2>2 DEF Run, Begin, Notified, Expire, Fire, Loop, Move, IInv, LockedInv
  <2> QED
    BY <2>1, <2>2 DEF Next
<1> QED
  BY <1>1, Invariance, PTL DEF Spec, NoCallbackOnceTerminated

\* The steps of the timer's thread to its end, if it does not wait again.
StepsLeft == CASE thread = "begin"    -> 4
               [] thread = "wait"     -> 3
               [] thread = "due"      -> 2
               [] thread = "callback" -> 1
               [] OTHER               -> 0

\* What is safety in StopReturns: while a client waits in stop(), every step
\* of the system is one of the timer's thread, and nearer to its end.
StopEnds == [][\A c \in Clients : pc[c] = "join" /\ pc'[c] = "join"
                                    => StepsLeft' < StepsLeft]_vars

\* stop() of a Timer waits for at most four steps of the timer's thread, the
\* expiry of the wait and the callback among them.
THEOREM StopIsBounded == Spec => StopEnds
<1>1. IInv /\ [Next]_vars => [\A c \in Clients : pc[c] = "join" /\ pc'[c] = "join"
                                                => StepsLeft' < StepsLeft]_vars
  <2> SUFFICES ASSUME IInv, Next, NEW c \in Clients, pc[c] = "join", pc'[c] = "join"
               PROVE  StepsLeft' < StepsLeft
    OBVIOUS
  <2>1. Run
    <3>1. mItfMutex = c /\ \A d \in Clients : d # c => pc[d] = "idle"
      BY DEF IInv, TypeOK
    <3>2. mItfMutex # "none"
      BY <3>1, TimerAssumption
    <3>3. ASSUME NEW d \in Clients
          PROVE  ~(LockItf(d) \/ Start(d) \/ Terminate(d) \/ Join(d))
      <4>1. CASE d = c
        BY <4>1 DEF LockItf, Start, Terminate, Join, Goto, IInv, TypeOK
      <4>2. CASE d # c
        BY <3>1, <3>2, <4>2 DEF LockItf, Start, Terminate, Join
      <4> QED
        BY <4>1, <4>2
    <3> QED
      BY <3>3 DEF Next, Stop
  <2>2. mTerminate \/ ~mPeriodic
    BY DEF IInv, JoinInv
  <2>3. CASE Begin \/ Notified \/ Expire \/ Loop
    BY <2>2, <2>3 DEF Begin, Notified, Expire, Loop, Move, StepsLeft
  <2>4. CASE Fire
    BY <2>4 DEF Fire, StepsLeft
  <2> QED
    BY <2>1, <2>3, <2>4 DEF Run
<1> QED
  BY <1>1, Invariance, PTL DEF Spec, StopEnds
=============================================================================
