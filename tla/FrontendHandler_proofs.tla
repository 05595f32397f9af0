------------------------ MODULE FrontendHandler_proofs ------------------------
(***************************************************************************)
(* What FrontendHandler promises, for all values of the constants, that is *)
(* for any number of rings, writes of the other domains and failures.      *)
(*                                                                         *)
(* Invariance: stop() leaves a closed handler behind (StoppedIsClosed).    *)
(* mAsyncContext runs its close() without mMutex, so stop() may find one   *)
(* anywhere in its course, and neither close() alone leaves mBackendState  *)
(* at Closed.  What holds is that some close() that has still to set       *)
(* Closed is under way, or the state is Closed (CloseInv): whoever sets    *)
(* Closing sets Closed later on.                                           *)
(*                                                                         *)
(* On it rest five more invariants, each with the lemmas that the parties  *)
(* preserve it: LockInv (who has mMutex), DeleteInv (no ring is deleted    *)
(* that has not been stopped), AgreeInv (the node and the state: a write   *)
(* they differ by has its event to come), ConnectInv (a node that says     *)
(* Connected has its rings) and LifeInv, with which every step of the      *)
(* handler maps to one of BackendLifecycle.                                *)
(***************************************************************************)
EXTENDS FrontendHandler, FiniteSetTheorems, TLAPS

InSet(t) == pc[t] \in {"set", "assign", "exist", "write"}

InClose(t) == \/ pc[t] \in {"close", "release", "clear", "reopen"}
              \/ InSet(t) /\ ret[t] \in {"release", "reopen"}

\* Where a routine of t returns to
Home(t) == IF t = "owner" THEN {"constructed", "terminate"}
           ELSE IF t = "watch" THEN {"unlock", "recheck"} ELSE {"pop"}

\* The thread t is in a close() that has still to set Closed.
Before(t) == \/ pc[t] \in {"close", "release", "clear"}
             \/ InSet(t) /\ ret[t] = "release"
             \/ pc[t] \in {"set", "assign"} /\ ret[t] = "reopen"

\* From the lock that stop() takes on
Stopping == mMutex = "owner" \/ pc["owner"] = "stopped"

\* Until start() there is no watch thread.
Starting == \/ pc["owner"] \in {"new", "readInit", "constructed"}
            \/ pc["owner"] \in Routine /\ mMutex # "owner"

\* The owner has cleared the rings.
Cleared == \/ pc["owner"] \in {"reopen", "terminate", "joinAsync", "stopped"}
           \/ InSet("owner") /\ ret["owner"] \in {"reopen", "terminate"}

ControlInv ==
  /\ pc["owner"] \in OwnerPc \union Routine
  /\ pc["watch"] \in WatchPc \union Routine
  /\ pc["async"] \in AsyncPc \union Routine
  /\ \A t \in Thread :
       /\ InSet(t) => \/ ret[t] \in Home(t)
                      \/ ret[t] = "release" /\ arg[t] = "Closing"
                      \/ ret[t] = "reopen" /\ arg[t] = "Closed"
       /\ InClose(t) => done[t] \in Home(t)

OwnerInv ==
  /\ mMutex = "owner" => pc["owner"] \in Routine \union {"terminate", "joinAsync"}
  /\ pc["owner"] \in {"terminate", "joinAsync"} => mMutex = "owner"
  /\ InClose("owner") =>
       IF mMutex = "owner" THEN done["owner"] = "terminate" /\ after["owner"] = "Closed"
                           ELSE done["owner"] = "constructed"
  /\ InSet("owner") /\ ~InClose("owner") =>
       IF mMutex = "owner" THEN ret["owner"] = "terminate" /\ arg["owner"] = "Closed"
                           ELSE ret["owner"] = "constructed"

WatchInv ==
  /\ Stopping => pc["watch"] \in {"off", "dead"}
  /\ Starting => pc["watch"] = "off"
  /\ pc["watch"] = "push" => toBind > 0

AsyncInv ==
  /\ pc["async"] \in Routine \union {"pop"} => asyncCalls > 0
  /\ InClose("async") => after["async"] = "Closed"
  /\ InSet("async") /\ ~InClose("async") => arg["async"] = "Closed"
  /\ pc["owner"] = "stopped" => pc["async"] = "exit"

CloseInv == Stopping => Before("owner") \/ Before("async") \/ mBackendState = "Closed"

RingInv ==
  /\ \A r \in Rings : evt[r] # "none" => r \in mRingBuffers \/ pc["watch"] = "push"
  /\ Stopping /\ Cleared => mRingBuffers = {} /\ \A r \in Rings : evt[r] = "none"

IInv == TypeOK /\ ControlInv /\ OwnerInv /\ WatchInv /\ AsyncInv /\ CloseInv /\ RingInv

\* The tail of a queue is a queue.
LEMMA TailSeq ==
  ASSUME NEW S, NEW q \in Seq(S), q # <<>>
  PROVE  Tail(q) \in Seq(S)
  OBVIOUS

\* A call of the store that fails, or does not, is counted.
LEMMA Counted ==
  ASSUME TypeOK, NEW node, Exists(node) \/ Missing(node) \/ Unreadable(node) \/ Fault
  PROVE  /\ UNCHANGED <<feWrites, beWrites, ringErrors, interrupts>>
         /\ faults' \in Nat /\ (faults' = faults \/ (faults < MaxFaults /\ faults' = faults + 1))
         /\ misread' \in BOOLEAN
  <1>1. misread' = misread \/ misread' = TRUE
    BY DEF Exists, Missing, Unreadable, Misread, Fault, bounds
  <1>2. misread' \in BOOLEAN
    BY <1>1 DEF TypeOK
  <1> QED
    BY <1>2 DEF TypeOK, Exists, Missing, Unreadable, Misread, Fault, CountFault, bounds

\* Every step of setBackendState() and close() preserves the invariant.
LEMMA RoutineInv ==
  ASSUME IInv, NEW t \in Thread, RoutineStep(t)
  PROVE  IInv'
  <1> USE DEF IInv, TypeOK, ControlInv, OwnerInv, WatchInv, AsyncInv, CloseInv, RingInv,
             Stopping, Starting, Cleared, Before, InClose, InSet, Home, Thread, Label, Routine,
             OwnerPc, WatchPc, AsyncPc, Goto, GotoOnly, store, state, rings, calls, frames,
             bounds
  <1>1. CASE SetBackendState(t)
    BY <1>1 DEF SetBackendState
  <1>2. CASE Assign(t)
    BY <1>2 DEF Assign
  <1>3. CASE CheckIfExist(t)
    <2>1. /\ pc[t] = "exist" /\ UNCHANGED <<store, state, mMutex, rings, calls, frames>>
          /\ \E l \in {"write", ret[t]} : pc' = [pc EXCEPT ![t] = l]
      BY <1>3 DEF CheckIfExist
    <2>2. /\ UNCHANGED <<feWrites, beWrites, ringErrors, interrupts>>
          /\ faults' \in Nat /\ misread' \in BOOLEAN
      BY <1>3, Counted DEF CheckIfExist
    <2>3. TypeOK'
      BY <2>1, <2>2
    <2>4. ControlInv' /\ OwnerInv' /\ WatchInv'
      BY <2>1
    <2>5. AsyncInv' /\ CloseInv' /\ RingInv'
      BY <2>1
    <2> QED
      BY <2>3, <2>4, <2>5
  <1>4. CASE WriteInt(t)
    BY <1>4 DEF WriteInt, Notify, XenbusState, NodeValue
  <1>5. CASE Close(t)
    BY <1>5 DEF Close, CallSet, XenbusState
  <1>6. CASE StopRings(t)
    BY <1>6 DEF StopRings
  <1>7. CASE ClearRings(t)
    BY <1>7 DEF ClearRings, CallSet, XenbusState
  <1>8. CASE Reopen(t)
    BY <1>8 DEF Reopen, CallSet
  <1> QED
    BY <1>1, <1>2, <1>3, <1>4, <1>5, <1>6, <1>7, <1>8 DEF RoutineStep

\* The constructor and start() preserve the invariant.
LEMMA OwnerInv_Init ==
  ASSUME IInv, OwnerInit \/ Start \/ StartFails
  PROVE  IInv'
  <1> USE DEF IInv, TypeOK, ControlInv, OwnerInv, WatchInv, AsyncInv, CloseInv, RingInv,
             Stopping, Starting, Cleared, Before, InClose, InSet, Home, Thread, Label, Routine,
             OwnerPc, WatchPc, AsyncPc, Goto, GotoOnly, store, state, rings, calls, frames,
             bounds
  <1>1. CASE Construct
    <2>1. /\ pc["owner"] = "new"
          /\ UNCHANGED <<store, state, mMutex, rings, asyncCalls, alive, frames>>
          /\ mTerminate' = mTerminate \/ mTerminate' = TRUE
          /\ \E l \in {"readInit", "constructed", "threw"} : pc' = [pc EXCEPT !["owner"] = l]
      BY <1>1 DEF Construct, ConstructorThrows
    <2>2. /\ UNCHANGED <<feWrites, beWrites, ringErrors, interrupts>>
          /\ faults' \in Nat /\ misread' \in BOOLEAN
      BY <1>1, Counted DEF Construct
    <2>3. mTerminate' \in BOOLEAN
      BY <2>1
    <2>4. TypeOK'
      BY <2>1, <2>2, <2>3
    <2>5. ControlInv' /\ OwnerInv' /\ WatchInv'
      BY <2>1
    <2>6. AsyncInv' /\ CloseInv' /\ RingInv'
      BY <2>1
    <2> QED
      BY <2>4, <2>5, <2>6
  <1>2. CASE ReadInit
    <2>1. TypeOK'
      <3>1. /\ UNCHANGED <<feWrites, beWrites, ringErrors, interrupts>>
            /\ faults' \in Nat /\ misread' \in BOOLEAN
        BY <1>2, Counted DEF ReadInit
      <3>2. CASE ConstructorThrows /\ UNCHANGED mBackendState
        BY <1>2, <3>1, <3>2 DEF ReadInit, ConstructorThrows
      <3>3. CASE ~(ConstructorThrows /\ UNCHANGED mBackendState)
        <4>1. xsBe # Absent /\ UNCHANGED mTerminate
          BY <1>2, <3>3 DEF ReadInit, Exists
        <4>2. xsBe \in XenbusState /\ mBackendState' = xsBe
          BY <1>2, <3>3, <4>1 DEF ReadInit, XenbusState, NodeValue, Absent
        <4>3. CallSet("owner", "Initialising", "constructed")
              \/ CallClose("owner", "Initialising", "constructed")
          BY <1>2, <3>3 DEF ReadInit
        <4> QED
          BY <1>2, <3>1, <4>1, <4>2, <4>3 DEF ReadInit, CallSet, CallClose, XenbusState
      <3> QED
        BY <3>2, <3>3
    <2>2. ControlInv' /\ OwnerInv' /\ WatchInv'
      BY <1>2 DEF ReadInit, ConstructorThrows, Unreadable, Exists, Fault, CountFault, CallSet,
         CallClose, XenbusState, NodeValue, Absent
    <2>3. AsyncInv' /\ CloseInv' /\ RingInv'
      BY <1>2 DEF ReadInit, ConstructorThrows, Unreadable, Exists, Fault, CountFault, CallSet,
         CallClose, XenbusState, NodeValue, Absent
    <2> QED
      BY <2>1, <2>2, <2>3
  <1>3. CASE Start
    BY <1>3 DEF Start
  <1>4. CASE StartFails
    BY <1>4 DEF StartFails, Fault, CountFault
  <1> QED
    BY <1>1, <1>2, <1>3, <1>4 DEF OwnerInit

\* stop() preserves the invariant.
LEMMA OwnerInv_Stop ==
  ASSUME IInv, Stop \/ OwnerStop
  PROVE  IInv'
  <1> USE DEF IInv, TypeOK, ControlInv, OwnerInv, WatchInv, AsyncInv, CloseInv, RingInv,
             Stopping, Starting, Cleared, Before, InClose, InSet, Home, Thread, Label, Routine,
             OwnerPc, WatchPc, AsyncPc, Goto, GotoOnly, store, state, rings, calls, frames,
             bounds
  <1>1. CASE Stop
    <2>1. TypeOK'
      <3>1. watchQ' \in Seq({"fe", "be"})
        BY <1>1 DEF Stop
      <3>2. watching' \in BOOLEAN
        BY <1>1 DEF Stop
      <3>3. pc' \in [Thread -> Label]
        BY <1>1 DEF Stop
      <3> QED
        BY <1>1, <3>1, <3>2, <3>3 DEF Stop
    <2>2. ControlInv' /\ OwnerInv' /\ WatchInv'
      BY <1>1 DEF Stop
    <2>3. AsyncInv' /\ CloseInv' /\ RingInv'
      BY <1>1 DEF Stop
    <2> QED
      BY <2>1, <2>2, <2>3
  <1>2. CASE StopClose
    BY <1>2 DEF StopClose, LockAndClose, CallClose, XenbusState
  <1>3. CASE TerminateAsync
    BY <1>3 DEF TerminateAsync
  <1>4. CASE JoinAsync
    BY <1>4 DEF JoinAsync
  <1> QED
    BY <1>1, <1>2, <1>3, <1>4 DEF OwnerStop

\* Every step of the watch thread preserves the invariant.
LEMMA WatchInvStep ==
  ASSUME IInv, WatchStep
  PROVE  IInv'
  <1> USE DEF IInv, TypeOK, ControlInv, OwnerInv, WatchInv, AsyncInv, CloseInv, RingInv,
             Stopping, Starting, Cleared, Before, InClose, InSet, Home, Thread, Label, Routine,
             OwnerPc, WatchPc, AsyncPc, Goto, GotoOnly, store, state, rings, calls, frames,
             bounds
  <1>1. CASE Poll
    BY <1>1 DEF Poll
  <1>2. CASE FrontendStateChanged
    <2>1. /\ pc["watch"] = "checkFe" /\ mMutex = "none"
          /\ UNCHANGED <<store, state, rings, calls, frames>>
          /\ \/ pc' = [pc EXCEPT !["watch"] = "poll"] /\ UNCHANGED mMutex
             \/ pc' = [pc EXCEPT !["watch"] = "readFe"] /\ mMutex' = "watch"
      BY <1>2 DEF FrontendStateChanged, EnterCallback
    <2>2. /\ UNCHANGED <<feWrites, beWrites, ringErrors, interrupts>>
          /\ faults' \in Nat /\ misread' \in BOOLEAN
      BY <1>2, Counted DEF FrontendStateChanged, EnterCallback
    <2>3. TypeOK'
      BY <2>1, <2>2
    <2>4. ControlInv' /\ OwnerInv' /\ WatchInv'
      BY <2>1
    <2>5. AsyncInv' /\ CloseInv' /\ RingInv'
      BY <2>1
    <2> QED
      BY <2>3, <2>4, <2>5
  <1>3. CASE BackendStateChanged
    <2>1. /\ pc["watch"] = "checkBe" /\ mMutex = "none"
          /\ UNCHANGED <<store, state, rings, calls, frames>>
          /\ \/ pc' = [pc EXCEPT !["watch"] = "poll"] /\ UNCHANGED mMutex
             \/ pc' = [pc EXCEPT !["watch"] = "readBe"] /\ mMutex' = "watch"
      BY <1>3 DEF BackendStateChanged, EnterCallback
    <2>2. /\ UNCHANGED <<feWrites, beWrites, ringErrors, interrupts>>
          /\ faults' \in Nat /\ misread' \in BOOLEAN
      BY <1>3, Counted DEF BackendStateChanged, EnterCallback
    <2>3. TypeOK'
      BY <2>1, <2>2
    <2>4. ControlInv' /\ OwnerInv' /\ WatchInv'
      BY <2>1
    <2>5. AsyncInv' /\ CloseInv' /\ RingInv'
      BY <2>1
    <2> QED
      BY <2>3, <2>4, <2>5
  <1>4. CASE ReadGone
    BY <1>4 DEF ReadGone, Unreadable, Throw, Fault, CountFault
  <1>5. CASE ReadFrontend
    BY <1>5 DEF ReadFrontend, XenbusState, NodeValue, Absent
  <1>6. CASE ReadBackend
    BY <1>6 DEF ReadBackend, XenbusState, NodeValue, Absent
  <1>7. CASE CompareBackend
    BY <1>7 DEF CompareBackend
  <1>8. CASE AssignBackend
    BY <1>8 DEF AssignBackend
  <1>9. CASE OnBackendStateChanged
    BY <1>9 DEF OnBackendStateChanged, CallSet, CallClose, XenbusState
  <1>10. CASE Unlock
    BY <1>10 DEF Unlock
  <1>11. CASE OnStateInitializing
    BY <1>11 DEF OnStateInitializing, CallClose, XenbusState
  <1>12. CASE Recheck
    BY <1>12 DEF Recheck, CallSet, XenbusState
  <1>13. CASE OnStateConnected
    BY <1>13, HandlerAssumption DEF OnStateConnected, HandlerAssumption
  <1>14. CASE OnStateClosing
    BY <1>14 DEF OnStateClosing, CallClose, XenbusState
  <1>15. CASE OnStateOther
    BY <1>15 DEF OnStateOther
  <1>16. CASE StartRing
    BY <1>16 DEF StartRing
  <1>17. CASE PushRing
    BY <1>17 DEF PushRing
  <1>18. CASE BindDone
    BY <1>18 DEF BindDone, CallSet, XenbusState
  <1>19. CASE BindFails
    BY <1>19 DEF BindFails, Throw, Fault, CountFault
  <1>20. CASE PollFails
    BY <1>20 DEF PollFails, Throw, Fault, CountFault
  <1>21. CASE ReadWatch
    <2>1. TypeOK'
      <3>1. watchQ # <<>> => Tail(watchQ) \in Seq({"fe", "be"})
        <4>1. watchQ \in Seq({"fe", "be"})
          OBVIOUS
        <4> QED
          BY <4>1, TailSeq
      <3>2. watchQ' \in Seq({"fe", "be"})
        BY <1>21, <3>1 DEF ReadWatch
      <3>3. pc' \in [Thread -> Label]
        BY <1>21 DEF ReadWatch
      <3> QED
        BY <1>21, <3>2, <3>3 DEF ReadWatch
    <2>2. ControlInv' /\ OwnerInv' /\ WatchInv'
      BY <1>21 DEF ReadWatch
    <2>3. AsyncInv' /\ CloseInv' /\ RingInv'
      BY <1>21 DEF ReadWatch
    <2> QED
      BY <2>1, <2>2, <2>3
  <1> QED
    BY <1>1, <1>2, <1>3, <1>4, <1>5, <1>6, <1>7, <1>8, <1>9, <1>10, <1>11, <1>12, <1>13,
       <1>14,
       <1>15, <1>16, <1>17, <1>18, <1>19, <1>20, <1>21 DEF WatchStep

\* Every step of AsyncContext preserves the invariant.
LEMMA AsyncInvStep ==
  ASSUME IInv, AsyncStep
  PROVE  IInv'
  <1> USE DEF IInv, TypeOK, ControlInv, OwnerInv, WatchInv, AsyncInv, CloseInv, RingInv,
             Stopping, Starting, Cleared, Before, InClose, InSet, Home, Thread, Label, Routine,
             OwnerPc, WatchPc, AsyncPc, Goto, GotoOnly, store, state, rings, calls, frames,
             bounds
  <1>1. CASE AsyncEnter
    BY <1>1 DEF AsyncEnter
  <1>2. CASE AsyncCall
    BY <1>2 DEF AsyncCall, CallClose, XenbusState
  <1>3. CASE AsyncPop
    BY <1>3 DEF AsyncPop
  <1> QED
    BY <1>1, <1>2, <1>3 DEF AsyncStep

\* A failed write preserves the invariant.
LEMMA FaultInvStep ==
  ASSUME IInv, NEW t \in Thread, WriteFails(t)
  PROVE  IInv'
  <1> USE DEF IInv, TypeOK, ControlInv, OwnerInv, WatchInv, AsyncInv, CloseInv, RingInv,
             Stopping, Starting, Cleared, Before, InClose, InSet, Home, Thread, Label, Routine,
             OwnerPc, WatchPc, AsyncPc, Goto, GotoOnly, store, state, rings, calls, frames,
             bounds
  <1>1. CASE t = "watch"
    BY <1>1 DEF WriteFails, Throw, Fault, CountFault
  <1>2. CASE /\ alive' = FALSE
             /\ UNCHANGED <<pc, frames, mMutex, rings, asyncCalls, mTerminate, store, state>>
             /\ Fault
    <2>1. alive' \in BOOLEAN
      BY <1>2
    <2>2. TypeOK'
      BY <1>2, <2>1 DEF Fault, CountFault
    <2>3. ControlInv' /\ OwnerInv' /\ WatchInv'
      BY <1>2
    <2>4. AsyncInv' /\ CloseInv' /\ RingInv'
      BY <1>2
    <2> QED
      BY <2>2, <2>3, <2>4
  <1>3. CASE /\ t = "owner" /\ mMutex = "owner"
             /\ GotoOnly("owner", "joinWatch") /\ mMutex' = "none"
             /\ UNCHANGED <<rings, calls>>
    BY <1>3 DEF WriteFails, Fault, CountFault
  <1>4. CASE t = "owner" /\ mMutex # "owner"
    <2>1. mTerminate' \in BOOLEAN
      BY <1>4 DEF WriteFails
    <2>2. pc' \in [Thread -> Label]
      BY <1>4 DEF WriteFails
    <2>3. TypeOK'
      BY <1>4, <2>1, <2>2 DEF WriteFails, Fault, CountFault
    <2>4. ControlInv' /\ OwnerInv' /\ WatchInv'
      BY <1>4 DEF WriteFails, Fault, CountFault
    <2>5. AsyncInv' /\ CloseInv' /\ RingInv'
      BY <1>4 DEF WriteFails, Fault, CountFault
    <2> QED
      BY <2>3, <2>4, <2>5
  <1> QED
    BY <1>1, <1>2, <1>3, <1>4 DEF WriteFails

\* A ring whose event thread fails preserves the invariant.
LEMMA RingInvStep ==
  ASSUME IInv, NEW r \in Rings, RingError(r)
  PROVE  IInv'
  <1> USE DEF IInv, TypeOK, ControlInv, OwnerInv, WatchInv, AsyncInv, CloseInv, RingInv,
             Stopping, Starting, Cleared, Before, InClose, InSet, Home, Thread, Label, Routine,
             OwnerPc, WatchPc, AsyncPc, Goto, GotoOnly, store, state, rings, calls, frames,
             bounds
  <1> QED
    BY DEF RingError

\* What the frontend and the toolstack write preserves the invariant.
LEMMA OutsideInvStep ==
  ASSUME IInv, NEW s \in NodeValue, FrontendWrite(s) \/ ToolstackWrite(s)
  PROVE  IInv'
  <1> USE DEF IInv, TypeOK, ControlInv, OwnerInv, WatchInv, AsyncInv, CloseInv, RingInv,
             Stopping, Starting, Cleared, Before, InClose, InSet, Home, Thread, Label, Routine,
             OwnerPc, WatchPc, AsyncPc, Goto, GotoOnly, store, state, rings, calls, frames,
             bounds
  <1>1. CASE FrontendWrite(s)
    BY <1>1 DEF FrontendWrite, Notify
  <1>2. CASE ToolstackWrite(s)
    BY <1>2 DEF ToolstackWrite, Notify
  <1> QED
    BY <1>1, <1>2

\* An interrupted poll() preserves the invariant.
LEMMA InterruptInvStep ==
  ASSUME IInv, PollInterrupted
  PROVE  IInv'
  <1> USE DEF IInv, TypeOK, ControlInv, OwnerInv, WatchInv, AsyncInv, CloseInv, RingInv,
             Stopping, Starting, Cleared, Before, InClose, InSet, Home, Thread, Label, Routine,
             OwnerPc, WatchPc, AsyncPc, Goto, GotoOnly, store, state, rings, calls, frames,
             bounds
  <1> QED
    BY DEF PollInterrupted

\* A new handler satisfies the invariant.
LEMMA InitInv == ASSUME Init PROVE IInv
  <1> USE HandlerAssumption DEF Init, HandlerAssumption, Thread, Label, Routine, OwnerPc, WatchPc,
             AsyncPc, XenbusState, NodeValue, Absent
  <1>1. TypeOK
    <2>1. watchQ \in Seq({"fe", "be"})
      OBVIOUS
    <2>2. watching \in BOOLEAN /\ mTerminate \in BOOLEAN /\ alive \in BOOLEAN
      OBVIOUS
    <2>3. pc \in [Thread -> Label]
      OBVIOUS
    <2>4. ret \in [Thread -> Label] /\ done \in [Thread -> Label]
      OBVIOUS
    <2> QED
      BY <2>1, <2>2, <2>3, <2>4 DEF TypeOK
  <1>2. ControlInv /\ OwnerInv /\ WatchInv
    BY DEF ControlInv, OwnerInv, WatchInv, InClose, InSet, Stopping, Starting
  <1>3. AsyncInv /\ CloseInv /\ RingInv
    BY DEF AsyncInv, CloseInv, RingInv, InClose, InSet, Stopping
  <1> QED
    BY <1>1, <1>2, <1>3 DEF IInv

\* Every step preserves the invariant.
LEMMA NextInv == ASSUME IInv, [Next]_vars PROVE IInv'
  <1>1. CASE \E t \in Thread : RoutineStep(t) \/ WriteFails(t)
    BY <1>1, RoutineInv, FaultInvStep
  <1>2. CASE OwnerInit \/ Start \/ StartFails
    BY <1>2, OwnerInv_Init
  <1>3. CASE Stop \/ OwnerStop
    BY <1>3, OwnerInv_Stop
  <1>4. CASE WatchStep
    BY <1>4, WatchInvStep
  <1>5. CASE AsyncStep
    BY <1>5, AsyncInvStep
  <1>6. CASE \E r \in Rings : RingError(r)
    BY <1>6, RingInvStep
  <1>7. CASE \/ \E s \in FrontendWrites : FrontendWrite(s)
             \/ \E s \in ToolstackWrites : ToolstackWrite(s)
    BY <1>7, OutsideInvStep, HandlerAssumption DEF HandlerAssumption
  <1>9. CASE PollInterrupted
    BY <1>9, InterruptInvStep
  <1>8. CASE UNCHANGED vars
    BY <1>8 DEF vars, store, state, rings, calls, frames, bounds, IInv, TypeOK,
                ControlInv, OwnerInv, WatchInv, AsyncInv, CloseInv, RingInv,
                Stopping, Starting, Cleared, Before, InClose, InSet
  <1> QED
    BY <1>1, <1>2, <1>3, <1>4, <1>5, <1>6, <1>7, <1>8, <1>9 DEF Next

\* IInv is an invariant: no assumption on the other domains or on what fails.
THEOREM Invariance == Spec => []IInv
  <1>1. Init => IInv
    BY InitInv
  <1>2. IInv /\ [Next]_vars => IInv'
    BY NextInv
  <1> QED
    BY <1>1, <1>2, PTL DEF Spec

\* Every variable always has its type.
THEOREM TypeCorrect == Spec => []TypeOK
  <1>1. IInv => TypeOK
    BY DEF IInv
  <1> QED
    BY <1>1, Invariance, PTL

\* Whatever the frontend and the toolstack write and whatever fails, when stop()
\* returns the state is Closed, no ring is left and no thread of the handler runs.
THEOREM StopCloses == Spec => []StoppedIsClosed
  <1>1. IInv => StoppedIsClosed
    <2> SUFFICES ASSUME IInv, pc["owner"] = "stopped"
                 PROVE  /\ mBackendState = "Closed"
                        /\ mRingBuffers = {} /\ \A r \in Rings : evt[r] = "none"
                        /\ pc["watch"] \in {"off", "dead"} /\ pc["async"] = "exit"
      BY DEF StoppedIsClosed
    <2>1. pc["async"] = "exit" /\ ~Before("owner") /\ ~Before("async")
      BY DEF IInv, AsyncInv, Before, InSet
    <2>2. mBackendState = "Closed"
      BY <2>1 DEF IInv, CloseInv, Stopping
    <2>3. pc["watch"] \in {"off", "dead"}
      BY DEF IInv, WatchInv, Stopping
    <2>4. mRingBuffers = {} /\ \A r \in Rings : evt[r] = "none"
      BY DEF IInv, RingInv, Stopping, Cleared
    <2> QED
      BY <2>1, <2>2, <2>3, <2>4
  <1> QED
    BY <1>1, Invariance, PTL

-----------------------------------------------------------------------------
(* The mutex, and the threads that stop() waits for *)

\* Where the watch thread holds mMutex
Held == (WatchPc \ {"off", "poll", "read", "checkFe", "checkBe", "dead"}) \union Routine

\* The watch thread holds mMutex as long as it is in a callback; what stop() waits
\* for was told to end first.
LockInv ==
  /\ mMutex = "watch" <=> pc["watch"] \in Held
  /\ pc["owner"] = "joinWatch" \/ Stopping => ~watching
  /\ pc["owner"] \in {"joinAsync", "stopped"} => mTerminate

\* The steps of setBackendState() and close() preserve LockInv.
LEMMA LockRoutine ==
  ASSUME IInv, LockInv, NEW t \in Thread, RoutineStep(t)
  PROVE  LockInv'
  <1> USE DEF LockInv, Held, IInv, TypeOK, ControlInv, OwnerInv, WatchInv, Stopping, Starting,
             InClose, InSet, Home, Routine, OwnerPc, WatchPc, AsyncPc, store, state, rings,
             calls, frames, bounds, Goto, GotoOnly, Thread
  <1>1. CASE SetBackendState(t)
    BY <1>1 DEF SetBackendState
  <1>2. CASE Assign(t)
    BY <1>2 DEF Assign
  <1>3. CASE CheckIfExist(t)
    BY <1>3 DEF CheckIfExist, Exists, Missing, Misread, CountFault
  <1>4. CASE WriteInt(t)
    BY <1>4 DEF WriteInt, Notify
  <1>5. CASE Close(t)
    BY <1>5 DEF Close, CallSet
  <1>6. CASE StopRings(t)
    BY <1>6 DEF StopRings
  <1>7. CASE ClearRings(t)
    BY <1>7 DEF ClearRings, CallSet
  <1>8. CASE Reopen(t)
    BY <1>8 DEF Reopen, CallSet
  <1> QED
    BY <1>1, <1>2, <1>3, <1>4, <1>5, <1>6, <1>7, <1>8 DEF RoutineStep

\* The constructor, start() and stop() preserve LockInv.
LEMMA LockOwner ==
  ASSUME IInv, LockInv, OwnerInit \/ Start \/ StartFails \/ Stop \/ OwnerStop
  PROVE  LockInv'
  <1> USE DEF LockInv, Held, IInv, TypeOK, ControlInv, OwnerInv, WatchInv, Stopping, Starting,
             InClose, InSet, Home, Routine, OwnerPc, WatchPc, AsyncPc, store, state, rings,
             calls, frames, bounds, Goto, GotoOnly, Thread
  <1>1. CASE Construct
    BY <1>1 DEF Construct, ConstructorThrows, Exists, Missing, Misread, Fault, CountFault
  <1>2. CASE ReadInit
    BY <1>2 DEF ReadInit, ConstructorThrows, Unreadable, Exists, Fault, CountFault, CallSet,
       CallClose
  <1>3. CASE Start
    BY <1>3 DEF Start
  <1>4. CASE Stop
    BY <1>4 DEF Stop
  <1>5. CASE StopClose
    BY <1>5 DEF StopClose, LockAndClose, CallClose
  <1>6. CASE TerminateAsync
    BY <1>6 DEF TerminateAsync
  <1>7. CASE JoinAsync
    BY <1>7 DEF JoinAsync
  <1>8. CASE StartFails
    BY <1>8 DEF StartFails, Fault, CountFault
  <1> QED
    BY <1>1, <1>2, <1>3, <1>4, <1>5, <1>6, <1>7, <1>8 DEF OwnerInit, OwnerStop

\* The steps of the watch thread preserve LockInv.
LEMMA LockWatch ==
  ASSUME IInv, LockInv, WatchStep
  PROVE  LockInv'
  <1> USE DEF LockInv, Held, IInv, TypeOK, ControlInv, OwnerInv, WatchInv, Stopping, Starting,
             InClose, InSet, Home, Routine, OwnerPc, WatchPc, AsyncPc, store, state, rings,
             calls, frames, bounds, Goto, GotoOnly, Thread
  <1>1. CASE Poll
    BY <1>1 DEF Poll
  <1>2. CASE FrontendStateChanged
    BY <1>2 DEF FrontendStateChanged, EnterCallback, Exists, Missing, Misread, CountFault
  <1>3. CASE BackendStateChanged
    BY <1>3 DEF BackendStateChanged, EnterCallback, Exists, Missing, Misread, CountFault
  <1>4. CASE ReadGone
    BY <1>4 DEF ReadGone, Unreadable, Throw, Fault, CountFault
  <1>5. CASE ReadFrontend
    BY <1>5 DEF ReadFrontend
  <1>6. CASE ReadBackend
    BY <1>6 DEF ReadBackend
  <1>7. CASE CompareBackend
    BY <1>7 DEF CompareBackend
  <1>8. CASE AssignBackend
    BY <1>8 DEF AssignBackend
  <1>9. CASE OnBackendStateChanged
    BY <1>9 DEF OnBackendStateChanged, CallSet, CallClose
  <1>10. CASE Unlock
    BY <1>10 DEF Unlock
  <1>11. CASE OnStateInitializing
    BY <1>11 DEF OnStateInitializing, CallClose
  <1>12. CASE Recheck
    BY <1>12 DEF Recheck, CallSet
  <1>13. CASE OnStateConnected
    BY <1>13 DEF OnStateConnected
  <1>14. CASE OnStateClosing
    BY <1>14 DEF OnStateClosing, CallClose
  <1>15. CASE OnStateOther
    BY <1>15 DEF OnStateOther
  <1>16. CASE StartRing
    BY <1>16 DEF StartRing
  <1>17. CASE PushRing
    BY <1>17 DEF PushRing
  <1>18. CASE BindDone
    BY <1>18 DEF BindDone, CallSet
  <1>19. CASE BindFails
    BY <1>19 DEF BindFails, Throw, Fault, CountFault
  <1>20. CASE PollFails
    BY <1>20 DEF PollFails, Throw, Fault, CountFault
  <1>21. CASE ReadWatch
    BY <1>21 DEF ReadWatch
  <1> QED
    BY <1>1, <1>2, <1>3, <1>4, <1>5, <1>6, <1>7, <1>8, <1>9, <1>10, <1>11, <1>12, <1>13,
       <1>14,
       <1>15, <1>16, <1>17, <1>18, <1>19, <1>20, <1>21 DEF WatchStep

\* The steps of AsyncContext preserve LockInv.
LEMMA LockAsync ==
  ASSUME IInv, LockInv, AsyncStep
  PROVE  LockInv'
  <1> USE DEF LockInv, Held, IInv, TypeOK, ControlInv, OwnerInv, WatchInv, Stopping, Starting,
             InClose, InSet, Home, Routine, OwnerPc, WatchPc, AsyncPc, store, state, rings,
             calls, frames, bounds, Goto, GotoOnly, Thread
  <1>1. CASE AsyncEnter
    BY <1>1 DEF AsyncEnter
  <1>2. CASE AsyncCall
    BY <1>2 DEF AsyncCall, CallClose
  <1>3. CASE AsyncPop
    BY <1>3 DEF AsyncPop
  <1> QED
    BY <1>1, <1>2, <1>3 DEF AsyncStep

\* A write of the store that fails preserves LockInv.
LEMMA LockFault ==
  ASSUME IInv, LockInv, NEW t \in Thread, WriteFails(t)
  PROVE  LockInv'
  <1> USE DEF LockInv, Held, IInv, TypeOK, ControlInv, OwnerInv, WatchInv, Stopping, Starting,
             InClose, InSet, Home, Routine, OwnerPc, WatchPc, AsyncPc, store, state, rings,
             calls, frames, bounds, Goto, GotoOnly, Thread
  <1> QED
    BY DEF WriteFails, Throw, Fault, CountFault

\* A failing ring, an interrupted poll(), the frontend and the toolstack preserve LockInv.
LEMMA LockOutside ==
  ASSUME IInv, LockInv,
         \/ \E r \in Rings : RingError(r)
         \/ \E s : FrontendWrite(s) \/ ToolstackWrite(s)
         \/ PollInterrupted
  PROVE  LockInv'
  <1> USE DEF LockInv, Held, IInv, TypeOK, ControlInv, OwnerInv, WatchInv, Stopping, Starting,
             InClose, InSet, Home, Routine, OwnerPc, WatchPc, AsyncPc, store, state, rings,
             calls, frames, bounds, Goto, GotoOnly, Thread
  <1>1. CASE \E r \in Rings : RingError(r)
    BY <1>1 DEF RingError
  <1>2. CASE \E s : FrontendWrite(s)
    BY <1>2 DEF FrontendWrite, Notify
  <1>3. CASE \E s : ToolstackWrite(s)
    BY <1>3 DEF ToolstackWrite, Notify
  <1>4. CASE PollInterrupted
    BY <1>4 DEF PollInterrupted
  <1> QED
    BY <1>1, <1>2, <1>3, <1>4

\* It holds of a new handler.
LEMMA LockInit == ASSUME Init PROVE LockInv
  BY DEF Init, LockInv, Held, Stopping, Routine, WatchPc, Thread

\* Every step preserves LockInv.
LEMMA LockNext == ASSUME IInv, LockInv, [Next]_vars PROVE LockInv'
  <1>1. CASE UNCHANGED vars
    BY <1>1 DEF vars, store, calls, LockInv, Held, Stopping
  <1> QED
    BY <1>1, LockRoutine, LockOwner, LockWatch, LockAsync, LockFault, LockOutside
       DEF Next

\* LockInv is an invariant, whatever fails.
LEMMA LockInvariance == Spec => []LockInv
  BY LockInit, LockNext, Invariance, PTL DEF Spec

\* What is safety in StopReturns: mMutex is free whenever the watch thread wants
\* it, and when stop() does; a callback has it, and never takes it to poll() or
\* to the read of an event; and who is joined has been told to end.
NobodyBlocked ==
  /\ pc["watch"] \in {"checkFe", "checkBe"} => mMutex = "none"
  /\ pc["owner"] = "joinWatch" =>
       /\ ~watching
       /\ IF pc["watch"] \in {"off", "dead", "poll", "read"} THEN mMutex = "none" ELSE mMutex # "owner"
  /\ pc["owner"] = "joinAsync" => mTerminate /\ mMutex = "owner"
  /\ mMutex = "watch" => pc["watch"] \notin {"off", "dead", "poll", "read"}

\* No thread that holds mMutex waits for one that wants it, whatever fails:
\* stop() locks it when the watch thread is gone, and joins with it locked the
\* thread of mAsyncContext, which never wants it.
THEOREM NoLockCycle == Spec => []NobodyBlocked
  <1>1. IInv /\ LockInv => NobodyBlocked
    BY DEF IInv, TypeOK, ControlInv, OwnerInv, WatchInv, LockInv, Held, Stopping, Starting,
       Routine, OwnerPc, WatchPc, NobodyBlocked
  <1> QED
    BY <1>1, Invariance, LockInvariance, PTL

-----------------------------------------------------------------------------
(* The rings: who deletes them *)

\* A ring of the vector exists.  As long as no ring has failed, a posted close()
\* means that the watch thread is gone, what is about to be deleted has been stopped,
\* and what has been stopped is about to be deleted.
DeleteInv ==
  /\ \A r \in mRingBuffers : evt[r] # "none"
  /\ ringErrors = 0 =>
       /\ asyncCalls > 0 => pc["watch"] = "dead"
       /\ \A t \in Thread : pc[t] = "clear" => \A r \in mRingBuffers : evt[r] = "stopped"
       /\ \A r \in Rings : \/ evt[r] \in {"none", "running"}
                           \/ evt[r] = "stopped" /\ \E t \in Thread : pc[t] = "clear"

\* The steps of setBackendState() and close() preserve what DeleteInv says of the rings.
LEMMA DeleteRoutine ==
  ASSUME IInv, DeleteInv, NEW t \in Thread, RoutineStep(t)
  PROVE  DeleteInv'
  <1> USE DEF DeleteInv, IInv, TypeOK, ControlInv, OwnerInv, WatchInv, AsyncInv, RingInv,
             Stopping, Starting, InClose, InSet, Home, Routine, OwnerPc, WatchPc, AsyncPc,
             store, state, rings, calls, frames, bounds, Goto, GotoOnly, Thread
  <1>1. CASE SetBackendState(t)
    BY <1>1 DEF SetBackendState
  <1>2. CASE Assign(t)
    BY <1>2 DEF Assign
  <1>3. CASE CheckIfExist(t)
    BY <1>3 DEF CheckIfExist, Exists, Missing, Misread, CountFault
  <1>4. CASE WriteInt(t)
    BY <1>4 DEF WriteInt, Notify
  <1>5. CASE Close(t)
    BY <1>5 DEF Close, CallSet
  <1>6. CASE StopRings(t)
    BY <1>6 DEF StopRings
  <1>7. CASE ClearRings(t)
    BY <1>7 DEF ClearRings, CallSet
  <1>8. CASE Reopen(t)
    BY <1>8 DEF Reopen, CallSet
  <1> QED
    BY <1>1, <1>2, <1>3, <1>4, <1>5, <1>6, <1>7, <1>8 DEF RoutineStep

\* The constructor, start() and stop() preserve what DeleteInv says of the rings.
LEMMA DeleteOwner ==
  ASSUME IInv, DeleteInv, OwnerInit \/ Start \/ StartFails \/ Stop \/ OwnerStop
  PROVE  DeleteInv'
  <1> USE DEF DeleteInv, IInv, TypeOK, ControlInv, OwnerInv, WatchInv, AsyncInv, RingInv,
             Stopping, Starting, InClose, InSet, Home, Routine, OwnerPc, WatchPc, AsyncPc,
             store, state, rings, calls, frames, bounds, Goto, GotoOnly, Thread
  <1>1. CASE Construct
    BY <1>1 DEF Construct, ConstructorThrows, Exists, Missing, Misread, Fault, CountFault
  <1>2. CASE ReadInit
    BY <1>2 DEF ReadInit, ConstructorThrows, Unreadable, Exists, Fault, CountFault, CallSet,
       CallClose
  <1>3. CASE Start
    BY <1>3 DEF Start
  <1>4. CASE Stop
    BY <1>4 DEF Stop
  <1>5. CASE StopClose
    BY <1>5 DEF StopClose, LockAndClose, CallClose
  <1>6. CASE TerminateAsync
    BY <1>6 DEF TerminateAsync
  <1>7. CASE JoinAsync
    BY <1>7 DEF JoinAsync
  <1>8. CASE StartFails
    BY <1>8 DEF StartFails, Fault, CountFault
  <1> QED
    BY <1>1, <1>2, <1>3, <1>4, <1>5, <1>6, <1>7, <1>8 DEF OwnerInit, OwnerStop

\* The steps of the watch thread preserve what DeleteInv says of the rings.
LEMMA DeleteWatch ==
  ASSUME IInv, DeleteInv, WatchStep
  PROVE  DeleteInv'
  <1> USE DEF DeleteInv, IInv, TypeOK, ControlInv, OwnerInv, WatchInv, AsyncInv, RingInv,
             Stopping, Starting, InClose, InSet, Home, Routine, OwnerPc, WatchPc, AsyncPc,
             store, state, rings, calls, frames, bounds, Goto, GotoOnly, Thread
  <1>1. CASE Poll
    BY <1>1 DEF Poll
  <1>2. CASE FrontendStateChanged
    BY <1>2 DEF FrontendStateChanged, EnterCallback, Exists, Missing, Misread, CountFault
  <1>3. CASE BackendStateChanged
    BY <1>3 DEF BackendStateChanged, EnterCallback, Exists, Missing, Misread, CountFault
  <1>4. CASE ReadGone
    BY <1>4 DEF ReadGone, Unreadable, Throw, Fault, CountFault
  <1>5. CASE ReadFrontend
    BY <1>5 DEF ReadFrontend
  <1>6. CASE ReadBackend
    BY <1>6 DEF ReadBackend
  <1>7. CASE CompareBackend
    BY <1>7 DEF CompareBackend
  <1>8. CASE AssignBackend
    BY <1>8 DEF AssignBackend
  <1>9. CASE OnBackendStateChanged
    BY <1>9 DEF OnBackendStateChanged, CallSet, CallClose
  <1>10. CASE Unlock
    BY <1>10 DEF Unlock
  <1>11. CASE OnStateInitializing
    BY <1>11 DEF OnStateInitializing, CallClose
  <1>12. CASE Recheck
    BY <1>12 DEF Recheck, CallSet
  <1>13. CASE OnStateConnected
    BY <1>13 DEF OnStateConnected
  <1>14. CASE OnStateClosing
    BY <1>14 DEF OnStateClosing, CallClose
  <1>15. CASE OnStateOther
    BY <1>15 DEF OnStateOther
  <1>16. CASE StartRing
    BY <1>16 DEF StartRing
  <1>17. CASE PushRing
    BY <1>17 DEF PushRing
  <1>18. CASE BindDone
    BY <1>18 DEF BindDone, CallSet
  <1>19. CASE BindFails
    BY <1>19 DEF BindFails, Throw, Fault, CountFault
  <1>20. CASE PollFails
    BY <1>20 DEF PollFails, Throw, Fault, CountFault
  <1>21. CASE ReadWatch
    BY <1>21 DEF ReadWatch
  <1> QED
    BY <1>1, <1>2, <1>3, <1>4, <1>5, <1>6, <1>7, <1>8, <1>9, <1>10, <1>11, <1>12, <1>13,
       <1>14,
       <1>15, <1>16, <1>17, <1>18, <1>19, <1>20, <1>21 DEF WatchStep

\* The steps of AsyncContext preserve what DeleteInv says of the rings.
LEMMA DeleteAsync ==
  ASSUME IInv, DeleteInv, AsyncStep
  PROVE  DeleteInv'
  <1> USE DEF DeleteInv, IInv, TypeOK, ControlInv, OwnerInv, WatchInv, AsyncInv, RingInv,
             Stopping, Starting, InClose, InSet, Home, Routine, OwnerPc, WatchPc, AsyncPc,
             store, state, rings, calls, frames, bounds, Goto, GotoOnly, Thread
  <1>1. CASE AsyncEnter
    BY <1>1 DEF AsyncEnter
  <1>2. CASE AsyncCall
    BY <1>2 DEF AsyncCall, CallClose
  <1>3. CASE AsyncPop
    BY <1>3 DEF AsyncPop
  <1> QED
    BY <1>1, <1>2, <1>3 DEF AsyncStep

\* A write of the store that fails preserves what DeleteInv says of the rings.
LEMMA DeleteFault ==
  ASSUME IInv, DeleteInv, NEW t \in Thread, WriteFails(t)
  PROVE  DeleteInv'
  <1> USE DEF DeleteInv, IInv, TypeOK, ControlInv, OwnerInv, WatchInv, AsyncInv, RingInv,
             Stopping, Starting, InClose, InSet, Home, Routine, OwnerPc, WatchPc, AsyncPc,
             store, state, rings, calls, frames, bounds, Goto, GotoOnly, Thread
  <1> QED
    BY DEF WriteFails, Throw, Fault, CountFault

\* A failing ring, an interrupted poll(), the frontend and the toolstack preserve what DeleteInv says of the rings.
LEMMA DeleteOutside ==
  ASSUME IInv, DeleteInv,
         \/ \E r \in Rings : RingError(r)
         \/ \E s : FrontendWrite(s) \/ ToolstackWrite(s)
         \/ PollInterrupted
  PROVE  DeleteInv'
  <1> USE DEF DeleteInv, IInv, TypeOK, ControlInv, OwnerInv, WatchInv, AsyncInv, RingInv,
             Stopping, Starting, InClose, InSet, Home, Routine, OwnerPc, WatchPc, AsyncPc,
             store, state, rings, calls, frames, bounds, Goto, GotoOnly, Thread
  <1>1. CASE \E r \in Rings : RingError(r)
    BY <1>1 DEF RingError
  <1>2. CASE \E s : FrontendWrite(s)
    BY <1>2 DEF FrontendWrite, Notify
  <1>3. CASE \E s : ToolstackWrite(s)
    BY <1>3 DEF ToolstackWrite, Notify
  <1>4. CASE PollInterrupted
    BY <1>4 DEF PollInterrupted
  <1> QED
    BY <1>1, <1>2, <1>3, <1>4

\* It holds of a new handler.
LEMMA DeleteInit == ASSUME Init PROVE DeleteInv
  BY DEF Init, DeleteInv, Thread

\* Every step preserves what DeleteInv says of the rings.
LEMMA DeleteNext == ASSUME IInv, DeleteInv, [Next]_vars PROVE DeleteInv'
  <1>1. CASE UNCHANGED vars
    BY <1>1 DEF vars, rings, calls, bounds, DeleteInv
  <1> QED
    BY <1>1, DeleteRoutine, DeleteOwner, DeleteWatch, DeleteAsync, DeleteFault, DeleteOutside
       DEF Next

\* DeleteInv is an invariant, whatever fails: what it says of a handler none of
\* whose rings has failed needs no more.
THEOREM DeleteInvariance == Spec => []DeleteInv
  BY DeleteInit, DeleteNext, Invariance, PTL DEF Spec

\* Only the release of the vector deletes rings.
LEMMA KeepsRings ==
  ASSUME Next, evt \in [Rings -> {"none", "running", "failed", "stopped"}],
         NEW r \in Rings, evt[r] # "none", ~\E t \in Thread : ClearRings(t)
  PROVE  evt'[r] # "none"
  <1> USE DEF rings
  <1>1. ASSUME NEW t \in Thread, RoutineStep(t) \/ WriteFails(t)
        PROVE  evt'[r] # "none"
    <2>1. UNCHANGED evt \/ StopRings(t)
      BY <1>1 DEF RoutineStep, SetBackendState, Assign, CheckIfExist, WriteInt, Close, Reopen,
                  WriteFails, Throw
    <2> QED
      BY <2>1 DEF StopRings
  <1>2. CASE OwnerInit \/ Start \/ StartFails \/ Stop \/ OwnerStop
    BY <1>2 DEF OwnerInit, OwnerStop, Construct, ReadInit, Start, StartFails, Stop, StopClose,
       LockAndClose, TerminateAsync, JoinAsync
  <1>3. CASE WatchStep
    <2>1. UNCHANGED evt \/ StartRing
      BY <1>3 DEF WatchStep, Poll, PollFails, ReadWatch, FrontendStateChanged,
         BackendStateChanged, EnterCallback, ReadGone, ReadFrontend, ReadBackend,
         CompareBackend, AssignBackend, OnBackendStateChanged, Unlock, OnStateInitializing,
         Recheck, OnStateConnected, OnStateClosing, OnStateOther, PushRing, BindDone,
         BindFails, Throw
    <2> QED
      BY <2>1 DEF StartRing
  <1>4. CASE AsyncStep
    BY <1>4 DEF AsyncStep, AsyncEnter, AsyncCall, AsyncPop
  <1>5. CASE \/ \E u \in Rings : RingError(u)
             \/ \E s : FrontendWrite(s) \/ ToolstackWrite(s)
    BY <1>5 DEF RingError, FrontendWrite, ToolstackWrite
  <1>7. CASE PollInterrupted
    BY <1>7 DEF PollInterrupted
  <1>6. CASE UNCHANGED vars
    BY <1>6 DEF vars
  <1> QED
    BY <1>1, <1>2, <1>3, <1>4, <1>5, <1>6, <1>7 DEF Next

\* As long as no ring has failed, no ring object is deleted whose event thread
\* has not been joined, whoever runs close(): release() stops every ring of the
\* vector before it clears the vector, and nobody adds one in between.
THEOREM DeletesStopped == Spec => DeletedOnlyStoppedUnlessFailed
  <1>1. IInv /\ DeleteInv /\ [Next]_vars
        => [ringErrors = 0 => \A r \in Rings : Deleted(r) => evt[r] = "stopped"]_vars
    <2> SUFFICES ASSUME IInv, DeleteInv, Next, ringErrors = 0, NEW r \in Rings,
                        evt[r] # "none", evt'[r] = "none"
                 PROVE  evt[r] = "stopped"
      BY DEF Deleted
    <2>1. CASE \E t \in Thread : ClearRings(t)
      BY <2>1 DEF ClearRings, DeleteInv, IInv, TypeOK
    <2>2. CASE ~\E t \in Thread : ClearRings(t)
      BY <2>2, KeepsRings DEF IInv, TypeOK
    <2> QED
      BY <2>1, <2>2
  <1> QED
    BY <1>1, DeleteInvariance, Invariance, PTL DEF Spec, DeletedOnlyStoppedUnlessFailed

\* While nothing is posted to mAsyncContext, at most one thread is in a
\* release(): the owner and the watch thread never are in one together.
THEOREM OneRelease == Spec => [](asyncCalls = 0 => ReleaseExclusive)
  <1>1. IInv => (asyncCalls = 0 => ReleaseExclusive)
    BY DEF IInv, ControlInv, OwnerInv, WatchInv, AsyncInv, Stopping, Starting, Routine,
           OwnerPc, WatchPc, AsyncPc, TypeOK, Thread, ReleaseExclusive
  <1> QED
    BY <1>1, Invariance, PTL

-----------------------------------------------------------------------------
(* The node and the state *)

\* A write of the backend's node has its event to come.
BeQueued == \E k \in 1..Len(watchQ) : watchQ[k] = "be"

\* The thread t has assigned the state and may yet write it.
Writing(t) == pc[t] \in {"exist", "write"}

\* While the handler is up, a node that the state disagrees with has an event to
\* come, or a thread on its way to settle it; so has a read the node has changed since.
AgreeInv ==
  pc["owner"] = "up" =>
    /\ watching
    /\ ~misread /\ pc["watch"] # "dead" /\ xsBe # Absent /\ xsBe # mBackendState =>
         \/ BeQueued
         \/ pc["watch"] \in {"checkBe", "readBe", "compareBe", "assignBe"}
         \/ Writing("watch") \/ Writing("async")
    /\ pc["watch"] \in {"compareBe", "assignBe"} /\ xsBe # Absent /\ arg["watch"] # xsBe => BeQueued

\* An event of the backend's node stays where the queue stays.
LEMMA QueueSame ==
  ASSUME watchQ' = watchQ
  PROVE  BeQueued' <=> BeQueued
  BY DEF BeQueued

\* A write appends its event and loses none.
LEMMA QueueNotify ==
  ASSUME NEW node, node \in {"fe", "be"}, watchQ \in Seq({"fe", "be"}), watching, Notify(node)
  PROVE  BeQueued' <=> BeQueued \/ node = "be"
  <1>1. watchQ' = Append(watchQ, node)
    BY DEF Notify
  <1>2. /\ Len(watchQ') = Len(watchQ) + 1 /\ Len(watchQ) \in Nat /\ watchQ'[Len(watchQ) + 1] = node
        /\ \A k \in 1..Len(watchQ) : watchQ'[k] = watchQ[k]
    BY <1>1
  <1>3. \A k \in 1..Len(watchQ') : k = Len(watchQ) + 1 \/ k \in 1..Len(watchQ)
    BY <1>2
  <1>4. Len(watchQ) + 1 \in 1..Len(watchQ') /\ \A k \in 1..Len(watchQ) : k \in 1..Len(watchQ')
    BY <1>2
  <1> QED
    BY <1>2, <1>3, <1>4 DEF BeQueued

\* The event that is taken is the one of the backend's node, or that one stays.
LEMMA QueuePoll ==
  ASSUME watchQ \in Seq({"fe", "be"}), watchQ # <<>>, watchQ' = Tail(watchQ), BeQueued
  PROVE  Head(watchQ) = "be" \/ BeQueued'
  <1> PICK k \in 1..Len(watchQ) : watchQ[k] = "be"
    BY DEF BeQueued
  <1>1. Len(watchQ) \in Nat /\ Len(watchQ') = Len(watchQ) - 1
    OBVIOUS
  <1>2. CASE k = 1
    BY <1>2
  <1>3. CASE k # 1
    <2>1. k - 1 \in 1..Len(watchQ') /\ watchQ'[k - 1] = watchQ[k]
      BY <1>1, <1>3
    <2> QED
      BY <2>1 DEF BeQueued
  <1> QED
    BY <1>2, <1>3

\* start() finds an event of the backend's node.
LEMMA QueueStart ==
  ASSUME watchQ' = <<"fe", "be">>
  PROVE  BeQueued'
  <1>1. 2 \in 1..Len(watchQ') /\ watchQ'[2] = "be"
    OBVIOUS
  <1> QED
    BY <1>1 DEF BeQueued

\* The steps of setBackendState() and close() preserve the agreement of node and state.
LEMMA AgreeRoutine ==
  ASSUME IInv, AgreeInv, NEW t \in Thread, RoutineStep(t)
  PROVE  AgreeInv'
  <1> USE DEF AgreeInv, IInv, TypeOK, ControlInv, OwnerInv, WatchInv, AsyncInv, Stopping,
             Starting, InClose, InSet, Home, Routine, OwnerPc, WatchPc, AsyncPc, Writing, store,
             state, rings, calls, frames, bounds, Goto, GotoOnly, Thread
  <1>1. CASE SetBackendState(t)
    BY <1>1, QueueSame DEF SetBackendState
  <1>2. CASE Assign(t)
    BY <1>2, QueueSame DEF Assign
  <1>3. CASE CheckIfExist(t)
    BY <1>3, QueueSame DEF CheckIfExist, Exists, Missing, Misread, CountFault
  <1>4. CASE WriteInt(t)
    BY <1>4, QueueNotify DEF WriteInt
  <1>5. CASE Close(t)
    BY <1>5, QueueSame DEF Close, CallSet
  <1>6. CASE StopRings(t)
    BY <1>6, QueueSame DEF StopRings
  <1>7. CASE ClearRings(t)
    BY <1>7, QueueSame DEF ClearRings, CallSet
  <1>8. CASE Reopen(t)
    BY <1>8, QueueSame DEF Reopen, CallSet
  <1> QED
    BY <1>1, <1>2, <1>3, <1>4, <1>5, <1>6, <1>7, <1>8 DEF RoutineStep

\* The constructor, start() and stop() preserve the agreement of node and state.
LEMMA AgreeOwner ==
  ASSUME IInv, AgreeInv, OwnerInit \/ Start \/ StartFails \/ Stop \/ OwnerStop
  PROVE  AgreeInv'
  <1> USE DEF AgreeInv, IInv, TypeOK, ControlInv, OwnerInv, WatchInv, AsyncInv, Stopping,
             Starting, InClose, InSet, Home, Routine, OwnerPc, WatchPc, AsyncPc, Writing, store,
             state, rings, calls, frames, bounds, Goto, GotoOnly, Thread
  <1>1. CASE Construct
    BY <1>1, QueueSame, QueueStart DEF Construct, ConstructorThrows, Exists, Missing, Misread,
       Fault, CountFault
  <1>2. CASE ReadInit
    BY <1>2, QueueSame, QueueStart DEF ReadInit, ConstructorThrows, Unreadable, Exists, Fault,
       CountFault, CallSet, CallClose
  <1>3. CASE Start
    BY <1>3, QueueSame, QueueStart DEF Start
  <1>4. CASE Stop
    BY <1>4, QueueSame, QueueStart DEF Stop
  <1>5. CASE StopClose
    BY <1>5, QueueSame, QueueStart DEF StopClose, LockAndClose, CallClose
  <1>6. CASE TerminateAsync
    BY <1>6, QueueSame, QueueStart DEF TerminateAsync
  <1>7. CASE JoinAsync
    BY <1>7, QueueSame, QueueStart DEF JoinAsync
  <1>8. CASE StartFails
    BY <1>8, QueueSame DEF StartFails, Fault, CountFault
  <1> QED
    BY <1>1, <1>2, <1>3, <1>4, <1>5, <1>6, <1>7, <1>8 DEF OwnerInit, OwnerStop

\* The steps of the watch thread preserve the agreement of node and state.
LEMMA AgreeWatch ==
  ASSUME IInv, AgreeInv, WatchStep
  PROVE  AgreeInv'
  <1> USE DEF AgreeInv, IInv, TypeOK, ControlInv, OwnerInv, WatchInv, AsyncInv, Stopping,
             Starting, InClose, InSet, Home, Routine, OwnerPc, WatchPc, AsyncPc, Writing, store,
             state, rings, calls, frames, bounds, Goto, GotoOnly, Thread
  <1>1. CASE Poll
    BY <1>1, QueueSame DEF Poll
  <1>2. CASE FrontendStateChanged
    BY <1>2, QueueSame DEF FrontendStateChanged, EnterCallback, Exists, Missing, Misread,
       CountFault
  <1>3. CASE BackendStateChanged
    BY <1>3, QueueSame DEF BackendStateChanged, EnterCallback, Exists, Missing, Misread,
       CountFault
  <1>4. CASE ReadGone
    BY <1>4, QueueSame DEF ReadGone, Unreadable, Throw, Fault, CountFault
  <1>5. CASE ReadFrontend
    BY <1>5, QueueSame DEF ReadFrontend
  <1>6. CASE ReadBackend
    BY <1>6, QueueSame DEF ReadBackend
  <1>7. CASE CompareBackend
    BY <1>7, QueueSame DEF CompareBackend
  <1>8. CASE AssignBackend
    BY <1>8, QueueSame DEF AssignBackend
  <1>9. CASE OnBackendStateChanged
    BY <1>9, QueueSame DEF OnBackendStateChanged, CallSet, CallClose
  <1>10. CASE Unlock
    BY <1>10, QueueSame DEF Unlock
  <1>11. CASE OnStateInitializing
    BY <1>11, QueueSame DEF OnStateInitializing, CallClose
  <1>12. CASE Recheck
    BY <1>12, QueueSame DEF Recheck, CallSet
  <1>13. CASE OnStateConnected
    BY <1>13, QueueSame DEF OnStateConnected
  <1>14. CASE OnStateClosing
    BY <1>14, QueueSame DEF OnStateClosing, CallClose
  <1>15. CASE OnStateOther
    BY <1>15, QueueSame DEF OnStateOther
  <1>16. CASE StartRing
    BY <1>16, QueueSame DEF StartRing
  <1>17. CASE PushRing
    BY <1>17, QueueSame DEF PushRing
  <1>18. CASE BindDone
    BY <1>18, QueueSame DEF BindDone, CallSet
  <1>19. CASE BindFails
    BY <1>19, QueueSame DEF BindFails, Throw, Fault, CountFault
  <1>20. CASE PollFails
    BY <1>20, QueueSame DEF PollFails, Throw, Fault, CountFault
  <1>21. CASE ReadWatch
    BY <1>21, QueueSame, QueuePoll DEF ReadWatch
  <1> QED
    BY <1>1, <1>2, <1>3, <1>4, <1>5, <1>6, <1>7, <1>8, <1>9, <1>10, <1>11, <1>12, <1>13,
       <1>14,
       <1>15, <1>16, <1>17, <1>18, <1>19, <1>20, <1>21 DEF WatchStep

\* The steps of AsyncContext preserve the agreement of node and state.
LEMMA AgreeAsync ==
  ASSUME IInv, AgreeInv, AsyncStep
  PROVE  AgreeInv'
  <1> USE DEF AgreeInv, IInv, TypeOK, ControlInv, OwnerInv, WatchInv, AsyncInv, Stopping,
             Starting, InClose, InSet, Home, Routine, OwnerPc, WatchPc, AsyncPc, Writing, store,
             state, rings, calls, frames, bounds, Goto, GotoOnly, Thread
  <1>1. CASE AsyncEnter
    BY <1>1, QueueSame DEF AsyncEnter
  <1>2. CASE AsyncCall
    BY <1>2, QueueSame DEF AsyncCall, CallClose
  <1>3. CASE AsyncPop
    BY <1>3, QueueSame DEF AsyncPop
  <1> QED
    BY <1>1, <1>2, <1>3 DEF AsyncStep

\* A write of the store that fails preserves the agreement of node and state.
LEMMA AgreeFault ==
  ASSUME IInv, AgreeInv, NEW t \in Thread, WriteFails(t)
  PROVE  AgreeInv'
  <1> USE DEF AgreeInv, IInv, TypeOK, ControlInv, OwnerInv, WatchInv, AsyncInv, Stopping,
             Starting, InClose, InSet, Home, Routine, OwnerPc, WatchPc, AsyncPc, Writing, store,
             state, rings, calls, frames, bounds, Goto, GotoOnly, Thread
  <1> QED
    BY QueueSame DEF WriteFails, Throw, Fault, CountFault

\* A failing ring, an interrupted poll(), the frontend and the toolstack preserve the agreement of node and state.
LEMMA AgreeOutside ==
  ASSUME IInv, AgreeInv,
         \/ \E r \in Rings : RingError(r)
         \/ \E s : FrontendWrite(s) \/ ToolstackWrite(s)
         \/ PollInterrupted
  PROVE  AgreeInv'
  <1> USE DEF AgreeInv, IInv, TypeOK, ControlInv, OwnerInv, WatchInv, AsyncInv, Stopping,
             Starting, InClose, InSet, Home, Routine, OwnerPc, WatchPc, AsyncPc, Writing, store,
             state, rings, calls, frames, bounds, Goto, GotoOnly, Thread
  <1>1. CASE \E r \in Rings : RingError(r)
    BY <1>1, QueueSame, QueueNotify DEF RingError
  <1>2. CASE \E s : FrontendWrite(s)
    BY <1>2, QueueSame, QueueNotify DEF FrontendWrite
  <1>3. CASE \E s : ToolstackWrite(s)
    BY <1>3, QueueSame, QueueNotify DEF ToolstackWrite
  <1>4. CASE PollInterrupted
    BY <1>4, QueueSame DEF PollInterrupted
  <1> QED
    BY <1>1, <1>2, <1>3, <1>4

\* It holds of a new handler.
LEMMA AgreeInit == ASSUME Init PROVE AgreeInv
  BY DEF Init, AgreeInv, Thread

\* Every step preserves the agreement of node and state.
LEMMA AgreeNext == ASSUME IInv, AgreeInv, [Next]_vars PROVE AgreeInv'
  <1>1. CASE UNCHANGED vars
    BY <1>1, QueueSame DEF vars, store, state, frames, bounds, AgreeInv, Writing
  <1> QED
    BY <1>1, AgreeRoutine, AgreeOwner, AgreeWatch, AgreeAsync, AgreeFault, AgreeOutside DEF
       Next

\* A handler that is up and idle remembers the state its node holds, whatever
\* the toolstack wrote and whatever threw, unless xs_read() failed where
\* checkIfExist() called it: no write is missed.
THEOREM IdleAgrees == Spec => []IdleAgreement
  <1>1. AgreeInv => IdleAgreement
    BY DEF AgreeInv, IdleAgreement, Idle, Writing, BeQueued
  <1> QED
    BY <1>1, AgreeInit, AgreeNext, Invariance, PTL DEF Spec

-----------------------------------------------------------------------------
(* Connected *)

\* No ring and no call of the store has failed.
NoFault   == ringErrors = 0 /\ faults = 0
Connected == xsBe = "Connected"
Served    == mRingBuffers # {} /\ \A r \in mRingBuffers : evt[r] = "running"

\* The close() of t has set Closing, or had no need to.
Released(t) == \/ pc[t] \in {"release", "clear", "reopen"}
               \/ InSet(t) /\ ret[t] # "release" /\ arg[t] # "Connected"
               \/ Writing(t) /\ arg[t] # "Connected"

\* A node that says Connected says what the state is, or Closing is on its way to it.
NodeInv ==
  Connected /\ pc["owner"] \notin {"new", "readInit"} =>
    \/ mBackendState = "Connected"
    \/ mBackendState = "Closing" /\ \E t \in Thread : Writing(t) /\ arg[t] = "Closing"
    \/ /\ mBackendState = "Closed"
       /\ \E t, u \in Thread : /\ Writing(t) /\ arg[t] = "Closing"
                               /\ Writing(u) /\ arg[u] = "Closed"

\* Only the watch thread sets Connected, with the rings made; a close() ends it.
SetInv ==
  \A t \in Thread :
    /\ Released(t) => mBackendState # "Connected"
    /\ InClose(t) => after[t] # "Connected"
    /\ InSet(t) /\ arg[t] = "Connected" => t = "watch" /\ ret[t] = "unlock" /\ Served
    /\ Writing(t) /\ arg[t] = "Connected" => mBackendState = "Connected"

\* A close() that is over has turned the node, and no read is older than it.
TurnedInv ==
  Connected =>
    /\ Starting => \/ pc["owner"] \in {"new", "readInit", "close"}
                   \/ InSet("owner") /\ ret["owner"] = "release"
    /\ pc["watch"] \in {"compareBe", "assignBe"} => arg["watch"] = "Connected"
    /\ pc["async"] # "reopen" /\ ~(InSet("async") /\ ret["async"] = "pop")

\* onBind() makes rings whose event threads run.
BindInv ==
  /\ pc["watch"] \in {"bind", "push"} =>
       /\ mBackendState \in {"Initialising", "InitWait"}
       /\ \A r \in Rings : evt[r] \in {"none", "running"}
  /\ pc["watch"] = "bind" => toBind = RingsPerBind \/ mRingBuffers # {}
  /\ pc["watch"] = "push" => \E r \in Rings : evt[r] # "none"

\* From start() on, a node that says Connected has its rings, unless a posted
\* close() is at work.
ServedInv == ~Starting /\ Connected => Served \/ pc["async"] \in Routine

\* As long as nothing has failed
ConnectInv == NoFault => NodeInv /\ SetInv /\ TurnedInv /\ BindInv /\ ServedInv

\* onBind() adds a ring, and nobody but the backend writes Connected to its node.
ConnectAssumption == RingsPerBind > 0 /\ "Connected" \notin ToolstackWrites

\* The steps of setBackendState() and close() preserve what a node that says Connected means.
LEMMA ConnectRoutine ==
  ASSUME IInv, DeleteInv, ConnectAssumption, ConnectInv, NEW t \in Thread, RoutineStep(t)
  PROVE  ConnectInv'
  <1> USE DEF ConnectInv, NodeInv, SetInv, TurnedInv, BindInv, ServedInv, NoFault, Connected,
             Served, Released, Writing, DeleteInv, IInv, TypeOK, ControlInv, OwnerInv, WatchInv,
             AsyncInv, RingInv, Stopping, Starting, InClose, InSet, Home, Routine, OwnerPc,
             WatchPc, AsyncPc, Absent, store, state, rings, calls, frames, bounds, Goto,
             GotoOnly, Thread
  <1>1. CASE SetBackendState(t)
    BY <1>1 DEF SetBackendState
  <1>2. CASE Assign(t)
    BY <1>2 DEF Assign
  <1>3. CASE CheckIfExist(t)
    <2> SUFFICES ASSUME NoFault'
                 PROVE  NodeInv' /\ SetInv' /\ TurnedInv' /\ BindInv' /\ ServedInv'
      BY DEF ConnectInv
    <2>1. /\ pc[t] = "exist" /\ NoFault
          /\ GotoOnly(t, IF xsBe = Absent THEN ret[t] ELSE "write")
          /\ UNCHANGED <<store, state, mMutex, rings, calls, bounds>>
      BY <1>3 DEF CheckIfExist, Exists, Missing, Misread, CountFault
    <2>2. NodeInv'
      <3> SUFFICES ASSUME Connected', pc'["owner"] \notin {"new", "readInit"}
                   PROVE  NodeInv'
        BY DEF NodeInv
      <3>1. /\ UNCHANGED <<xsBe, mBackendState, arg>> /\ pc["owner"] \notin {"new", "readInit"}
            /\ \A u \in Thread : Writing(u)' <=> Writing(u)
        BY <2>1
      <3> QED
        BY <2>1, <3>1
    <2>3. SetInv'
      BY <2>1
    <2>4. TurnedInv'
      BY <2>1
    <2>5. BindInv'
      BY <2>1
    <2>6. ServedInv'
      BY <2>1
    <2> QED
      BY <2>2, <2>3, <2>4, <2>5, <2>6
  <1>4. CASE WriteInt(t)
    <2>1. NoFault => NodeInv'
      <3>1. NoFault /\ Connected' => mBackendState' = "Connected"
        BY <1>4 DEF WriteInt
      <3> QED
        BY <3>1 DEF NodeInv
    <2>2. NoFault => SetInv'
      BY <1>4 DEF WriteInt
    <2>3. NoFault => TurnedInv'
      <3> SUFFICES ASSUME NoFault, Connected'
                   PROVE  TurnedInv'
        BY DEF TurnedInv
      <3>1. t = "watch" /\ ret[t] = "unlock" /\ mBackendState = "Connected"
        BY <1>4 DEF WriteInt
      <3>2. ~Released("async") /\ ~Starting
        BY <1>4, <3>1 DEF WriteInt
      <3> QED
        BY <1>4, <3>1, <3>2 DEF WriteInt
    <2>4. NoFault => BindInv'
      <3>1. /\ UNCHANGED <<mBackendState, mRingBuffers, evt, toBind>>
            /\ pc'["watch"] \in {"bind", "push"} => pc'["watch"] = pc["watch"]
        BY <1>4 DEF WriteInt
      <3> QED
        BY <3>1 DEF BindInv
    <2>5. NoFault => ServedInv'
      <3>1. CASE arg[t] = "Connected"
        BY <1>4, <3>1 DEF WriteInt
      <3>2. CASE arg[t] # "Connected"
        BY <1>4, <3>2 DEF WriteInt
      <3> QED
        BY <3>1, <3>2
    <2>6. NoFault' => NoFault
      BY <1>4 DEF WriteInt
    <2> QED
      BY <2>1, <2>2, <2>3, <2>4, <2>5, <2>6
  <1>5. CASE Close(t)
    BY <1>5 DEF Close, CallSet
  <1>6. CASE StopRings(t)
    BY <1>6 DEF StopRings
  <1>7. CASE ClearRings(t)
    BY <1>7 DEF ClearRings, CallSet
  <1>8. CASE Reopen(t)
    <2>1. NoFault => NodeInv'
      BY <1>8 DEF Reopen, CallSet
    <2>2. NoFault => SetInv'
      BY <1>8 DEF Reopen, CallSet
    <2>3. NoFault => TurnedInv'
      BY <1>8 DEF Reopen, CallSet
    <2>4. NoFault => BindInv'
      BY <1>8 DEF Reopen, CallSet
    <2>5. NoFault => ServedInv'
      BY <1>8 DEF Reopen, CallSet
    <2>6. NoFault' => NoFault
      BY <1>8 DEF Reopen, CallSet
    <2> QED
      BY <2>1, <2>2, <2>3, <2>4, <2>5, <2>6
  <1> QED
    BY <1>1, <1>2, <1>3, <1>4, <1>5, <1>6, <1>7, <1>8 DEF RoutineStep

\* The constructor, start() and stop() preserve what a node that says Connected means.
LEMMA ConnectOwner ==
  ASSUME IInv, DeleteInv, ConnectAssumption, ConnectInv, OwnerInit \/ Start \/ StartFails \/ Stop \/ OwnerStop
  PROVE  ConnectInv'
  <1> USE DEF ConnectInv, NodeInv, SetInv, TurnedInv, BindInv, ServedInv, NoFault, Connected,
             Served, Released, Writing, DeleteInv, IInv, TypeOK, ControlInv, OwnerInv, WatchInv,
             AsyncInv, RingInv, Stopping, Starting, InClose, InSet, Home, Routine, OwnerPc,
             WatchPc, AsyncPc, Absent, store, state, rings, calls, frames, bounds, Goto,
             GotoOnly, Thread
  <1>1. CASE Construct
    BY <1>1 DEF Construct, ConstructorThrows, Exists, Missing, Misread, Fault, CountFault
  <1>2. CASE ReadInit
    BY <1>2 DEF ReadInit, ConstructorThrows, Unreadable, Exists, Fault, CountFault, CallSet,
       CallClose
  <1>3. CASE Start
    BY <1>3 DEF Start
  <1>4. CASE Stop
    BY <1>4 DEF Stop
  <1>5. CASE StopClose
    BY <1>5 DEF StopClose, LockAndClose, CallClose
  <1>6. CASE TerminateAsync
    BY <1>6 DEF TerminateAsync
  <1>7. CASE JoinAsync
    BY <1>7 DEF JoinAsync
  <1>8. CASE StartFails
    BY <1>8 DEF StartFails, Fault, CountFault
  <1> QED
    BY <1>1, <1>2, <1>3, <1>4, <1>5, <1>6, <1>7, <1>8 DEF OwnerInit, OwnerStop

\* The steps of the watch thread preserve what a node that says Connected means.
LEMMA ConnectWatch ==
  ASSUME IInv, DeleteInv, ConnectAssumption, ConnectInv, WatchStep
  PROVE  ConnectInv'
  <1> USE DEF ConnectInv, NodeInv, SetInv, TurnedInv, BindInv, ServedInv, NoFault, Connected,
             Served, Released, Writing, DeleteInv, IInv, TypeOK, ControlInv, OwnerInv, WatchInv,
             AsyncInv, RingInv, Stopping, Starting, InClose, InSet, Home, Routine, OwnerPc,
             WatchPc, AsyncPc, Absent, store, state, rings, calls, frames, bounds, Goto,
             GotoOnly, Thread
  <1>1. CASE Poll
    BY <1>1 DEF Poll
  <1>2. CASE FrontendStateChanged
    BY <1>2 DEF FrontendStateChanged, EnterCallback, Exists, Missing, Misread, CountFault
  <1>3. CASE BackendStateChanged
    BY <1>3 DEF BackendStateChanged, EnterCallback, Exists, Missing, Misread, CountFault
  <1>4. CASE ReadGone
    BY <1>4 DEF ReadGone, Unreadable, Throw, Fault, CountFault
  <1>5. CASE ReadFrontend
    BY <1>5 DEF ReadFrontend
  <1>6. CASE ReadBackend
    BY <1>6 DEF ReadBackend
  <1>7. CASE CompareBackend
    BY <1>7 DEF CompareBackend
  <1>8. CASE AssignBackend
    BY <1>8 DEF AssignBackend
  <1>9. CASE OnBackendStateChanged
    BY <1>9 DEF OnBackendStateChanged, CallSet, CallClose
  <1>10. CASE Unlock
    BY <1>10 DEF Unlock
  <1>11. CASE OnStateInitializing
    BY <1>11 DEF OnStateInitializing, CallClose
  <1>12. CASE Recheck
    BY <1>12 DEF Recheck, CallSet
  <1>13. CASE OnStateConnected
    BY <1>13 DEF OnStateConnected
  <1>14. CASE OnStateClosing
    BY <1>14 DEF OnStateClosing, CallClose
  <1>15. CASE OnStateOther
    BY <1>15 DEF OnStateOther
  <1>16. CASE StartRing
    BY <1>16 DEF StartRing
  <1>17. CASE PushRing
    BY <1>17 DEF PushRing
  <1>18. CASE BindDone
    BY <1>18, HandlerAssumption DEF BindDone, CallSet, ConnectAssumption
  <1>19. CASE BindFails
    BY <1>19 DEF BindFails, Throw, Fault, CountFault
  <1>20. CASE PollFails
    BY <1>20 DEF PollFails, Throw, Fault, CountFault
  <1>21. CASE ReadWatch
    BY <1>21 DEF ReadWatch
  <1> QED
    BY <1>1, <1>2, <1>3, <1>4, <1>5, <1>6, <1>7, <1>8, <1>9, <1>10, <1>11, <1>12, <1>13,
       <1>14,
       <1>15, <1>16, <1>17, <1>18, <1>19, <1>20, <1>21 DEF WatchStep

\* The steps of AsyncContext preserve what a node that says Connected means.
LEMMA ConnectAsync ==
  ASSUME IInv, DeleteInv, ConnectAssumption, ConnectInv, AsyncStep
  PROVE  ConnectInv'
  <1> USE DEF ConnectInv, NodeInv, SetInv, TurnedInv, BindInv, ServedInv, NoFault, Connected,
             Served, Released, Writing, DeleteInv, IInv, TypeOK, ControlInv, OwnerInv, WatchInv,
             AsyncInv, RingInv, Stopping, Starting, InClose, InSet, Home, Routine, OwnerPc,
             WatchPc, AsyncPc, Absent, store, state, rings, calls, frames, bounds, Goto,
             GotoOnly, Thread
  <1>1. CASE AsyncEnter
    BY <1>1 DEF AsyncEnter
  <1>2. CASE AsyncCall
    BY <1>2 DEF AsyncCall, CallClose
  <1>3. CASE AsyncPop
    BY <1>3 DEF AsyncPop
  <1> QED
    BY <1>1, <1>2, <1>3 DEF AsyncStep

\* A write of the store that fails preserves what a node that says Connected means.
LEMMA ConnectFault ==
  ASSUME IInv, DeleteInv, ConnectAssumption, ConnectInv, NEW t \in Thread, WriteFails(t)
  PROVE  ConnectInv'
  <1> USE DEF ConnectInv, NodeInv, SetInv, TurnedInv, BindInv, ServedInv, NoFault, Connected,
             Served, Released, Writing, DeleteInv, IInv, TypeOK, ControlInv, OwnerInv, WatchInv,
             AsyncInv, RingInv, Stopping, Starting, InClose, InSet, Home, Routine, OwnerPc,
             WatchPc, AsyncPc, Absent, store, state, rings, calls, frames, bounds, Goto,
             GotoOnly, Thread
  <1> QED
    BY DEF WriteFails, Throw, Fault, CountFault

\* A failing ring, an interrupted poll(), the frontend and the toolstack preserve what a node that says Connected means.
LEMMA ConnectOutside ==
  ASSUME IInv, DeleteInv, ConnectAssumption, ConnectInv,
         \/ \E r \in Rings : RingError(r)
         \/ \E s : FrontendWrite(s)
         \/ \E s \in ToolstackWrites : ToolstackWrite(s)
         \/ PollInterrupted
  PROVE  ConnectInv'
  <1> USE DEF ConnectInv, NodeInv, SetInv, TurnedInv, BindInv, ServedInv, NoFault, Connected,
             Served, Released, Writing, DeleteInv, IInv, TypeOK, ControlInv, OwnerInv, WatchInv,
             AsyncInv, RingInv, Stopping, Starting, InClose, InSet, Home, Routine, OwnerPc,
             WatchPc, AsyncPc, Absent, store, state, rings, calls, frames, bounds, Goto,
             GotoOnly, Thread
  <1>1. CASE \E r \in Rings : RingError(r)
    BY <1>1 DEF RingError
  <1>2. CASE \E s : FrontendWrite(s)
    BY <1>2 DEF FrontendWrite, Notify
  <1>3. CASE \E s \in ToolstackWrites : ToolstackWrite(s)
    BY <1>3 DEF ToolstackWrite, Notify, ConnectAssumption
  <1>4. CASE PollInterrupted
    BY <1>4 DEF PollInterrupted
  <1> QED
    BY <1>1, <1>2, <1>3, <1>4

\* It holds of a new handler.
LEMMA ConnectInit == ASSUME Init PROVE ConnectInv
  BY DEF Init, ConnectInv, NodeInv, SetInv, TurnedInv, BindInv, ServedInv, Released, InSet,
     InClose, Writing, Starting, Thread

\* Every step preserves what a node that says Connected means.
LEMMA ConnectNext ==
  ASSUME ConnectAssumption, IInv, DeleteInv, ConnectInv, [Next]_vars
  PROVE  ConnectInv'
  <1>1. CASE UNCHANGED vars
    BY <1>1 DEF vars, store, state, rings, frames, bounds, ConnectInv, NoFault, NodeInv,
       SetInv, TurnedInv, BindInv, ServedInv, Released, InSet, InClose, Writing, Starting,
       Connected, Served
  <1> QED
    BY <1>1, ConnectRoutine, ConnectOwner, ConnectWatch, ConnectAsync, ConnectFault,
       ConnectOutside
       DEF Next

\* If the backend alone writes Connected, then as long as nothing has failed a
\* node that says Connected has rings, and their event threads run, whatever
\* else the frontend and the toolstack write.
THEOREM ConnectedServed ==
  ASSUME RingsPerBind > 0, "Connected" \notin ToolstackWrites
  PROVE  Spec => []ConnectedIsServed
  <1>1. ConnectAssumption
    BY DEF ConnectAssumption
  <1>2. IInv /\ ConnectInv => ConnectedIsServed
    BY DEF IInv, OwnerInv, ConnectInv, NoFault, ServedInv, Starting, Connected, Served,
       Routine, ConnectedIsServed
  <1> QED
    BY <1>1, <1>2, ConnectInit, ConnectNext, DeleteInvariance, Invariance, PTL DEF Spec

-----------------------------------------------------------------------------
(* The lifecycle: BackendLifecycle *)

\* Nothing fails, the nodes are there, the backend's node is its own, and there
\* are event channels for the rings of onBind().
LifeAssumption ==
  /\ MaxFaults = 0 /\ MaxRingErrors = 0 /\ ToolstackWrites = {}
  /\ InitialBackend \subseteq XenbusState /\ Absent \notin FrontendWrites
  /\ IsFiniteSet(Rings) /\ RingsPerBind > 0 /\ Cardinality(Rings) >= RingsPerBind

\* The handler holds rings; the ones it may yet make.
Serving == \E r \in Rings : evt[r] # "none"
Free    == {r \in Rings : evt[r] = "none"}

\* What setBackendState() may change the node from and to
Legal(from, to) ==
  \/ to = "Closing" /\ from \notin {"Closing", "Closed"}
  \/ to = "Closed" /\ from = "Closing" /\ ~Serving
  \/ to \in {"Initialising", "InitWait"} /\ from = "Closed" /\ ~Serving
  \/ to = "InitWait" /\ from = "Initialising" /\ ~Serving
  \/ to = "Connected" /\ from \in {"Initialising", "InitWait"} /\ Serving

\* Nothing has failed or been posted; who reads a node finds it.
CalmInv ==
  /\ faults = 0 /\ ringErrors = 0 /\ asyncCalls = 0
  /\ xsBe \in XenbusState
  /\ pc["watch"] = "readFe" => xsFe # Absent
  /\ pc["watch"] \in {"bind", "push"} => IsFiniteSet(Free)
  /\ pc["watch"] = "bind" => Cardinality(Free) >= toBind
  /\ pc["watch"] = "push" => Cardinality(Free) >= toBind - 1

\* The node is the state unless a thread is about to write the one to the other;
\* the thread that is sets no state that may not follow.
StepInv ==
  /\ pc["owner"] \notin {"new", "readInit"} /\ (\A t \in Thread : ~Writing(t)) => xsBe = mBackendState
  /\ \A t \in Thread :
       /\ pc[t] = "set" => arg[t] = mBackendState \/ Legal(mBackendState, arg[t])
       /\ pc[t] = "assign" => Legal(mBackendState, arg[t])
       /\ Writing(t) => mBackendState = arg[t] /\ Legal(xsBe, arg[t])
  /\ pc["watch"] = "compareBe" => arg["watch"] = mBackendState
  /\ pc["watch"] \notin {"assignBe", "onBackend"}

\* Rings are served from onBind() to the release().
ServingInv ==
  /\ Starting => ~Serving
  /\ Serving => \/ mBackendState \in {"Connected", "Closing"}
                \/ pc["watch"] \in {"bind", "push"}
                \/ InSet("watch") /\ arg["watch"] = "Connected"
  /\ \A t \in Thread :
       /\ pc[t] \in {"release", "clear"} => mBackendState \in {"Closing", "Closed"}
       /\ InSet(t) /\ ret[t] = "reopen" => ~Serving
       /\ pc[t] = "reopen" => mBackendState = "Closed" /\ ~Serving
       /\ InClose(t) => after[t] \in {"Closed", "Initialising", "InitWait"}

LifeInv == CalmInv /\ StepInv /\ ServingInv

\* The steps of setBackendState() and close() preserve the invariant of the lifecycle.
LEMMA LifeRoutine ==
  ASSUME LifeAssumption, IInv, DeleteInv, ConnectInv, LifeInv, NEW t \in Thread, RoutineStep(t)
  PROVE  LifeInv'
  <1> USE DEF LifeInv, CalmInv, StepInv, ServingInv, Serving, Free, Legal, Writing, IInv,
             TypeOK, ControlInv, OwnerInv, WatchInv, AsyncInv, RingInv, Stopping, Starting,
             InClose, InSet, Home, Routine, OwnerPc, WatchPc, AsyncPc, store, state, rings,
             calls, frames, bounds, Goto, GotoOnly, Thread
  <1>1. CASE SetBackendState(t)
    <2>1. CalmInv'
      BY <1>1 DEF SetBackendState
    <2>2. StepInv'
      BY <1>1 DEF SetBackendState
    <2>3. ServingInv'
      BY <1>1 DEF SetBackendState
    <2> QED
      BY <2>1, <2>2, <2>3
  <1>2. CASE Assign(t)
    <2>1. CalmInv'
      BY <1>2 DEF Assign
    <2>2. StepInv'
      BY <1>2 DEF Assign
    <2>3. ServingInv'
      BY <1>2 DEF Assign
    <2> QED
      BY <2>1, <2>2, <2>3
  <1>3. CASE CheckIfExist(t)
    <2>1. /\ pc[t] = "exist" /\ GotoOnly(t, "write")
          /\ UNCHANGED <<store, state, mMutex, rings, calls, bounds>>
      BY <1>3 DEF CheckIfExist, Exists, Missing, Misread, CountFault, LifeAssumption, Absent,
                  XenbusState
    <2>2. CalmInv'
      BY <2>1
    <2>3. StepInv'
      BY <2>1
    <2>4. ServingInv'
      BY <2>1
    <2> QED
      BY <2>2, <2>3, <2>4
  <1>4. CASE WriteInt(t)
    <2>1. CalmInv'
      BY <1>4 DEF WriteInt, Notify
    <2>2. StepInv'
      BY <1>4 DEF WriteInt, Notify
    <2>3. ServingInv'
      BY <1>4 DEF WriteInt, Notify
    <2> QED
      BY <2>1, <2>2, <2>3
  <1>5. CASE Close(t)
    <2>1. CalmInv'
      BY <1>5 DEF Close, CallSet
    <2>2. StepInv'
      BY <1>5 DEF Close, CallSet
    <2>3. ServingInv'
      BY <1>5 DEF Close, CallSet
    <2> QED
      BY <2>1, <2>2, <2>3
  <1>6. CASE StopRings(t)
    <2>1. CalmInv'
      BY <1>6 DEF StopRings
    <2>2. StepInv'
      BY <1>6 DEF StopRings
    <2>3. ServingInv'
      <3>1. Serving' <=> Serving
        BY <1>6 DEF StopRings, DeleteInv
      <3> QED
        BY <1>6, <3>1 DEF StopRings
    <2> QED
      BY <2>1, <2>2, <2>3
  <1>7. CASE ClearRings(t)
    <2>1. CalmInv'
      BY <1>7 DEF ClearRings, CallSet
    <2>2. StepInv'
      BY <1>7 DEF ClearRings, CallSet
    <2>3. ServingInv'
      BY <1>7 DEF ClearRings, CallSet
    <2> QED
      BY <2>1, <2>2, <2>3
  <1>8. CASE Reopen(t)
    <2>1. CalmInv'
      BY <1>8 DEF Reopen, CallSet
    <2>2. StepInv'
      BY <1>8 DEF Reopen, CallSet
    <2>3. ServingInv'
      BY <1>8 DEF Reopen, CallSet
    <2> QED
      BY <2>1, <2>2, <2>3
  <1> QED
    BY <1>1, <1>2, <1>3, <1>4, <1>5, <1>6, <1>7, <1>8 DEF RoutineStep

\* The constructor, start() and stop() preserve the invariant of the lifecycle.
LEMMA LifeOwner ==
  ASSUME LifeAssumption, IInv, DeleteInv, ConnectInv, LifeInv, OwnerInit \/ Start \/ StartFails \/ Stop \/
         OwnerStop
  PROVE  LifeInv'
  <1> USE DEF LifeInv, CalmInv, StepInv, ServingInv, Serving, Free, Legal, Writing, IInv,
             TypeOK, ControlInv, OwnerInv, WatchInv, AsyncInv, RingInv, Stopping, Starting,
             InClose, InSet, Home, Routine, OwnerPc, WatchPc, AsyncPc, store, state, rings,
             calls, frames, bounds, Goto, GotoOnly, Thread
  <1>1. CASE Construct
    BY <1>1 DEF Construct, ConstructorThrows, Exists, Missing, Misread, Fault, CountFault,
       LifeAssumption, Absent, XenbusState
  <1>2. CASE ReadInit
    <2>1. CalmInv'
      BY <1>2 DEF ReadInit, ConstructorThrows, Unreadable, Exists, Fault, CountFault, CallSet,
         CallClose, LifeAssumption, Absent, XenbusState
    <2>2. StepInv'
      BY <1>2 DEF ReadInit, ConstructorThrows, Unreadable, Exists, Fault, CountFault, CallSet,
         CallClose, LifeAssumption, Absent, XenbusState
    <2>3. ServingInv'
      BY <1>2 DEF ReadInit, ConstructorThrows, Unreadable, Exists, Fault, CountFault, CallSet,
         CallClose, LifeAssumption, Absent, XenbusState
    <2> QED
      BY <2>1, <2>2, <2>3
  <1>3. CASE Start
    BY <1>3 DEF Start
  <1>4. CASE Stop
    BY <1>4 DEF Stop
  <1>5. CASE StopClose
    <2>1. CalmInv'
      BY <1>5 DEF StopClose, LockAndClose, CallClose
    <2>2. StepInv'
      BY <1>5 DEF StopClose, LockAndClose, CallClose
    <2>3. ServingInv'
      BY <1>5 DEF StopClose, LockAndClose, CallClose
    <2> QED
      BY <2>1, <2>2, <2>3
  <1>6. CASE TerminateAsync
    BY <1>6 DEF TerminateAsync
  <1>7. CASE JoinAsync
    BY <1>7 DEF JoinAsync
  <1>8. CASE StartFails
    BY <1>8 DEF StartFails, Fault, CountFault, LifeAssumption
  <1> QED
    BY <1>1, <1>2, <1>3, <1>4, <1>5, <1>6, <1>7, <1>8 DEF OwnerInit, OwnerStop

\* The steps of the watch thread preserve the invariant of the lifecycle.
LEMMA LifeWatch ==
  ASSUME LifeAssumption, IInv, DeleteInv, ConnectInv, LifeInv, WatchStep
  PROVE  LifeInv'
  <1> USE DEF LifeInv, CalmInv, StepInv, ServingInv, Serving, Free, Legal, Writing, IInv,
             TypeOK, ControlInv, OwnerInv, WatchInv, AsyncInv, RingInv, Stopping, Starting,
             InClose, InSet, Home, Routine, OwnerPc, WatchPc, AsyncPc, store, state, rings,
             calls, frames, bounds, Goto, GotoOnly, Thread
  <1>1. CASE Poll
    BY <1>1 DEF Poll
  <1>2. CASE FrontendStateChanged
    <2>1. /\ pc["watch"] = "checkFe" /\ mMutex = "none"
          /\ UNCHANGED <<store, state, rings, calls, frames, bounds>>
          /\ \/ pc' = [pc EXCEPT !["watch"] = "poll"] /\ UNCHANGED mMutex
             \/ xsFe # Absent /\ pc' = [pc EXCEPT !["watch"] = "readFe"] /\ mMutex' = "watch"
      BY <1>2 DEF FrontendStateChanged, EnterCallback, Exists, Missing, Misread, CountFault,
         LifeAssumption
    <2>2. CalmInv'
      BY <2>1
    <2>3. StepInv'
      BY <2>1
    <2>4. ServingInv'
      BY <2>1
    <2> QED
      BY <2>2, <2>3, <2>4
  <1>3. CASE BackendStateChanged
    <2>1. /\ pc["watch"] = "checkBe" /\ mMutex = "none"
          /\ UNCHANGED <<store, state, rings, calls, frames, bounds>>
          /\ \/ pc' = [pc EXCEPT !["watch"] = "poll"] /\ UNCHANGED mMutex
             \/ xsBe # Absent /\ pc' = [pc EXCEPT !["watch"] = "readBe"] /\ mMutex' = "watch"
      BY <1>3 DEF BackendStateChanged, EnterCallback, Exists, Missing, Misread, CountFault,
         LifeAssumption
    <2>2. CalmInv'
      BY <2>1
    <2>3. StepInv'
      BY <2>1
    <2>4. ServingInv'
      BY <2>1
    <2> QED
      BY <2>2, <2>3, <2>4
  <1>4. CASE ReadGone
    BY <1>4 DEF ReadGone, Unreadable, Throw, Fault, CountFault, LifeAssumption, Absent,
       XenbusState
  <1>5. CASE ReadFrontend
    BY <1>5 DEF ReadFrontend
  <1>6. CASE ReadBackend
    BY <1>6 DEF ReadBackend
  <1>7. CASE CompareBackend
    BY <1>7 DEF CompareBackend
  <1>8. CASE AssignBackend
    BY <1>8 DEF AssignBackend
  <1>9. CASE OnBackendStateChanged
    <2>1. CalmInv'
      BY <1>9 DEF OnBackendStateChanged, CallSet, CallClose
    <2>2. StepInv'
      BY <1>9 DEF OnBackendStateChanged, CallSet, CallClose
    <2>3. ServingInv'
      BY <1>9 DEF OnBackendStateChanged, CallSet, CallClose
    <2> QED
      BY <2>1, <2>2, <2>3
  <1>10. CASE Unlock
    <2>1. CalmInv'
      BY <1>10 DEF Unlock
    <2>2. StepInv'
      BY <1>10 DEF Unlock
    <2>3. ServingInv'
      BY <1>10 DEF Unlock
    <2> QED
      BY <2>1, <2>2, <2>3
  <1>11. CASE OnStateInitializing
    BY <1>11 DEF OnStateInitializing, CallClose
  <1>12. CASE Recheck
    <2>1. CalmInv'
      BY <1>12 DEF Recheck, CallSet
    <2>2. StepInv'
      BY <1>12 DEF Recheck, CallSet
    <2>3. ServingInv'
      BY <1>12 DEF Recheck, CallSet
    <2> QED
      BY <2>1, <2>2, <2>3
  <1>13. CASE OnStateConnected
    <2>1. CalmInv'
      <3>1. CASE pc'["watch"] = "bind"
        <4>1. Free' = Rings /\ toBind' = RingsPerBind
          BY <1>13, <3>1 DEF OnStateConnected
        <4>2. IsFiniteSet(Free') /\ Cardinality(Free') >= toBind'
          <5> HIDE DEF Free
          <5> QED
            BY <4>1 DEF LifeAssumption
        <4> QED
          BY <1>13, <3>1, <4>2 DEF OnStateConnected
      <3>2. CASE pc'["watch"] # "bind"
        BY <1>13, <3>2 DEF OnStateConnected
      <3> QED
        BY <3>1, <3>2
    <2>2. StepInv'
      BY <1>13 DEF OnStateConnected
    <2>3. ServingInv'
      BY <1>13 DEF OnStateConnected
    <2> QED
      BY <2>1, <2>2, <2>3
  <1>14. CASE OnStateClosing
    <2>1. CalmInv'
      BY <1>14 DEF OnStateClosing, CallClose
    <2>2. StepInv'
      BY <1>14 DEF OnStateClosing, CallClose
    <2>3. ServingInv'
      BY <1>14 DEF OnStateClosing, CallClose
    <2> QED
      BY <2>1, <2>2, <2>3
  <1>15. CASE OnStateOther
    BY <1>15 DEF OnStateOther
  <1>16. CASE StartRing
    <2>1. CalmInv'
      <3>1. PICK r \in Rings : evt[r] = "none" /\ evt' = [evt EXCEPT ![r] = "running"]
        BY <1>16 DEF StartRing
      <3>2. Free' = Free \ {r} /\ r \in Free
        BY <3>1
      <3>3. IsFiniteSet(Free)
        BY <1>16 DEF StartRing
      <3>4. IsFiniteSet(Free') /\ Cardinality(Free') = Cardinality(Free) - 1
        <4> HIDE DEF Free
        <4> QED
          BY <3>2, <3>3, FS_RemoveElement
      <3>5. Cardinality(Free) \in Nat
        <4> HIDE DEF Free
        <4> QED
          BY <3>3, FS_CardinalityType
      <3> QED
        BY <1>16, <3>4, <3>5 DEF StartRing
    <2>2. StepInv'
      BY <1>16 DEF StartRing
    <2>3. ServingInv'
      BY <1>16 DEF StartRing
    <2> QED
      BY <2>1, <2>2, <2>3
  <1>17. CASE PushRing
    BY <1>17 DEF PushRing
  <1>18. CASE BindDone
    <2>1. CalmInv'
      BY <1>18 DEF BindDone, CallSet
    <2>2. StepInv'
      <3>1. Serving /\ mBackendState \in {"Initialising", "InitWait"}
        BY <1>18, LifeAssumption DEF BindDone, LifeAssumption, ConnectInv, NoFault, BindInv,
           DeleteInv
      <3> QED
        BY <1>18, <3>1 DEF BindDone, CallSet
    <2>3. ServingInv'
      BY <1>18 DEF BindDone, CallSet
    <2> QED
      BY <2>1, <2>2, <2>3
  <1>19. CASE BindFails
    <2>1. Cardinality(Free) # 0 /\ Free # {}
      BY <1>19, FS_EmptySet DEF BindFails
    <2> QED
      BY <1>19, <2>1 DEF BindFails, Fault, CountFault, LifeAssumption
  <1>20. CASE PollFails
    BY <1>20 DEF PollFails, Throw, Fault, CountFault, LifeAssumption
  <1>21. CASE ReadWatch
    BY <1>21 DEF ReadWatch
  <1> QED
    BY <1>1, <1>2, <1>3, <1>4, <1>5, <1>6, <1>7, <1>8, <1>9, <1>10, <1>11, <1>12, <1>13,
       <1>14,
       <1>15, <1>16, <1>17, <1>18, <1>19, <1>20, <1>21 DEF WatchStep

\* The steps of AsyncContext preserve the invariant of the lifecycle.
LEMMA LifeAsync ==
  ASSUME LifeAssumption, IInv, DeleteInv, ConnectInv, LifeInv, AsyncStep
  PROVE  LifeInv'
  <1> USE DEF LifeInv, CalmInv, StepInv, ServingInv, Serving, Free, Legal, Writing, IInv,
             TypeOK, ControlInv, OwnerInv, WatchInv, AsyncInv, RingInv, Stopping, Starting,
             InClose, InSet, Home, Routine, OwnerPc, WatchPc, AsyncPc, store, state, rings,
             calls, frames, bounds, Goto, GotoOnly, Thread
  <1>1. CASE AsyncEnter
    BY <1>1 DEF AsyncEnter
  <1>2. CASE AsyncCall
    <2>1. CalmInv'
      BY <1>2 DEF AsyncCall, CallClose
    <2>2. StepInv'
      BY <1>2 DEF AsyncCall, CallClose
    <2>3. ServingInv'
      BY <1>2 DEF AsyncCall, CallClose
    <2> QED
      BY <2>1, <2>2, <2>3
  <1>3. CASE AsyncPop
    BY <1>3 DEF AsyncPop
  <1> QED
    BY <1>1, <1>2, <1>3 DEF AsyncStep

\* An interrupted poll() preserves the invariant of the lifecycle.
LEMMA LifeInterrupt ==
  ASSUME IInv, LifeInv, PollInterrupted
  PROVE  LifeInv'
  <1>1. /\ pc["watch"] = "poll" /\ pc' = [pc EXCEPT !["watch"] = "read"]
        /\ UNCHANGED <<store, state, mMutex, rings, calls, frames, faults, ringErrors>>
    BY DEF PollInterrupted, Goto, GotoOnly
  <1> USE DEF LifeInv, CalmInv, StepInv, ServingInv, Serving, Free, Legal, Writing, IInv, TypeOK,
             OwnerInv, Starting, InClose, InSet, Routine, store, state, rings, calls, frames, Thread
  <1>2. CalmInv'
    BY <1>1
  <1>3. StepInv'
    BY <1>1
  <1>4. ServingInv'
    BY <1>1
  <1> QED
    BY <1>2, <1>3, <1>4

\* It holds of a new handler.
LEMMA LifeInit == ASSUME LifeAssumption, Init PROVE LifeInv
  <1>1. CalmInv
    BY DEF Init, LifeAssumption, CalmInv, Thread
  <1>2. StepInv
    BY DEF Init, StepInv, Thread, Writing
  <1>3. ServingInv
    BY DEF Init, ServingInv, Serving, Starting, InSet, InClose, Thread
  <1> QED
    BY <1>1, <1>2, <1>3 DEF LifeInv

\* Every step preserves the invariant of the lifecycle.
LEMMA LifeNext ==
  ASSUME LifeAssumption, IInv, DeleteInv, ConnectInv, LifeInv, [Next]_vars
  PROVE  LifeInv'
  <1>1. ~(\E t \in Thread : WriteFails(t)) /\ ~(\E r \in Rings : RingError(r))
    BY DEF LifeAssumption, LifeInv, CalmInv, WriteFails, Fault, CountFault, RingError
  <1>2. ~\E s \in ToolstackWrites : ToolstackWrite(s)
    BY DEF LifeAssumption
  <1>3. ASSUME NEW s \in FrontendWrites, FrontendWrite(s) PROVE LifeInv'
    <2>1. /\ xsFe' # Absent
          /\ UNCHANGED <<xsBe, evt, toBind, mBackendState, pc, arg, ret, after, mMutex,
                         faults, ringErrors, asyncCalls>>
      BY <1>3 DEF FrontendWrite, LifeAssumption, state, rings, calls, frames
    <2>2. CalmInv'
      BY <2>1 DEF LifeInv, CalmInv, Free
    <2>3. StepInv'
      BY <2>1 DEF LifeInv, StepInv, Writing, Legal, Serving
    <2>4. ServingInv'
      BY <2>1 DEF LifeInv, ServingInv, Serving, Starting, InSet, InClose
    <2> QED
      BY <2>2, <2>3, <2>4 DEF LifeInv
  <1>4. CASE UNCHANGED vars
    BY <1>4 DEF vars, store, state, rings, calls, frames, bounds, LifeInv, CalmInv, Free,
       StepInv, Writing, Legal, ServingInv, Serving, Starting, InSet, InClose
  <1>5. CASE PollInterrupted
    BY <1>5, LifeInterrupt
  <1> QED
    BY <1>1, <1>2, <1>3, <1>4, <1>5, LifeRoutine, LifeOwner, LifeWatch, LifeAsync DEF Next

\* Where nothing of the abstract state changes, the lifecycle stutters.
LEMMA Stutters == ASSUME UNCHANGED <<xsBe, evt>> PROVE UNCHANGED Lifecycle!vars
  BY DEF Lifecycle!vars

\* A write of the node is a step of the lifecycle.
LEMMA WriteMaps ==
  ASSUME LifeInv, NEW t \in Thread, WriteInt(t)
  PROVE  Lifecycle!Next
  <1>1. xsBe' = arg[t] /\ Legal(xsBe, arg[t]) /\ (Serving' <=> Serving)
    BY DEF WriteInt, LifeInv, StepInv, Writing, rings, Serving
  <1> QED
    BY <1>1 DEF Legal, Serving, Lifecycle!Next, Lifecycle!StartClosing, Lifecycle!Release,
                Lifecycle!FinishClosing, Lifecycle!Reopen, Lifecycle!AwaitFrontend,
                Lifecycle!Serve, Lifecycle!Connect

\* Stopping the rings is none.
LEMMA StopMaps ==
  ASSUME IInv, DeleteInv, NEW t \in Thread, StopRings(t)
  PROVE  UNCHANGED Lifecycle!vars
  <1>1. Serving' <=> Serving
    BY DEF IInv, TypeOK, DeleteInv, StopRings, Serving
  <1> QED
    BY <1>1 DEF StopRings, store, Serving, Lifecycle!vars

\* Clearing the vector releases the rings, if there are any.
LEMMA ClearMaps ==
  ASSUME IInv, LifeInv, NEW t \in Thread, ClearRings(t)
  PROVE  Lifecycle!Next \/ UNCHANGED Lifecycle!vars
  <1>1. ~Serving' /\ xsBe' = xsBe
    BY DEF IInv, TypeOK, ControlInv, OwnerInv, WatchInv, AsyncInv, RingInv, LifeInv, CalmInv,
       Stopping, Starting, Routine, OwnerPc, WatchPc, AsyncPc, Thread, ClearRings, Serving,
       store
  <1>2. Serving => xsBe = "Closing"
    BY DEF IInv, TypeOK, ControlInv, OwnerInv, WatchInv, AsyncInv, LifeInv, CalmInv, StepInv,
           ServingInv, Stopping, Starting, InSet, Writing, Routine, OwnerPc, WatchPc, AsyncPc,
           Thread, ClearRings
  <1> QED
    BY <1>1, <1>2 DEF Serving, Lifecycle!Next, Lifecycle!Release, Lifecycle!vars

\* The first ring of onBind() begins the service.
LEMMA StartMaps ==
  ASSUME IInv, ConnectInv, LifeInv, StartRing
  PROVE  Lifecycle!Next \/ UNCHANGED Lifecycle!vars
  <1>1. Serving' /\ xsBe' = xsBe
    BY DEF IInv, TypeOK, StartRing, Serving, store
  <1>2. xsBe \in {"Initialising", "InitWait"}
    BY DEF IInv, TypeOK, ControlInv, OwnerInv, WatchInv, AsyncInv, ConnectInv, NoFault,
       BindInv, LifeInv, CalmInv, StepInv, Stopping, Starting, Writing, Routine, OwnerPc,
       WatchPc, AsyncPc, Thread, StartRing
  <1> QED
    BY <1>1, <1>2 DEF Serving, Lifecycle!Next, Lifecycle!Serve, Lifecycle!vars

\* Every step of the handler is a step of the lifecycle or leaves it alone.
LEMMA StepMaps ==
  ASSUME LifeAssumption, IInv, DeleteInv, ConnectInv, LifeInv, [Next]_vars
  PROVE  [Lifecycle!Next]_(Lifecycle!vars)
  <1>1. ASSUME NEW t \in Thread, RoutineStep(t)
        PROVE  [Lifecycle!Next]_(Lifecycle!vars)
    <2>1. UNCHANGED <<xsBe, evt>> \/ WriteInt(t) \/ StopRings(t) \/ ClearRings(t)
      BY <1>1 DEF RoutineStep, SetBackendState, Assign, CheckIfExist, Close, Reopen, store,
         rings
    <2> QED
      BY <2>1, Stutters, WriteMaps, StopMaps, ClearMaps
  <1>2. ASSUME NEW t \in Thread, WriteFails(t)
        PROVE  [Lifecycle!Next]_(Lifecycle!vars)
    BY <1>2 DEF LifeAssumption, LifeInv, CalmInv, WriteFails, Fault, CountFault
  <1>3. CASE OwnerInit \/ Start \/ StartFails \/ Stop \/ OwnerStop
    <2>1. UNCHANGED <<xsBe, evt>>
      BY <1>3 DEF OwnerInit, OwnerStop, Construct, ReadInit, Start, StartFails, Stop,
         StopClose, LockAndClose, TerminateAsync, JoinAsync, store, rings
    <2> QED
      BY <2>1, Stutters
  <1>4. CASE WatchStep
    <2>1. UNCHANGED <<xsBe, evt>> \/ StartRing
      BY <1>4 DEF WatchStep, Poll, PollFails, ReadWatch, FrontendStateChanged,
         BackendStateChanged, EnterCallback, ReadGone, ReadFrontend, ReadBackend,
         CompareBackend, AssignBackend, OnBackendStateChanged, Unlock, OnStateInitializing,
         Recheck, OnStateConnected, OnStateClosing, OnStateOther, PushRing, BindDone,
         BindFails, Throw, store, rings
    <2> QED
      BY <2>1, Stutters, StartMaps
  <1>5. CASE \/ AsyncStep \/ PollInterrupted \/ UNCHANGED vars
             \/ \E s \in FrontendWrites : FrontendWrite(s)
    <2>1. UNCHANGED <<xsBe, evt>>
      BY <1>5 DEF AsyncStep, AsyncEnter, AsyncCall, AsyncPop, PollInterrupted, FrontendWrite,
         vars, store, rings
    <2> QED
      BY <2>1, Stutters
  <1>6. CASE \/ \E r \in Rings : RingError(r)
             \/ \E s \in ToolstackWrites : ToolstackWrite(s)
    BY <1>6 DEF LifeAssumption, LifeInv, CalmInv, RingError
  <1> QED
    BY <1>1, <1>2, <1>3, <1>4, <1>5, <1>6 DEF Next

\* The handler implements the safety part of BackendLifecycle (see
\* ImplementsLifecycle): if nothing fails and nobody else writes its node, a
\* frontend sees the node change only as the protocol has it, Closing before the
\* rings go, Closed after, and Connected with the rings there.
THEOREM LifecycleSafety ==
  ASSUME MaxFaults = 0, MaxRingErrors = 0, ToolstackWrites = {},
         InitialBackend \subseteq XenbusState, Absent \notin FrontendWrites,
         IsFiniteSet(Rings), RingsPerBind > 0, Cardinality(Rings) >= RingsPerBind
  PROVE  Spec => Lifecycle!Spec
  <1>1. LifeAssumption /\ ConnectAssumption
    BY DEF LifeAssumption, ConnectAssumption
  <1>2. Init => Lifecycle!Init
    BY DEF Init, Lifecycle!Init, Lifecycle!XenbusState, XenbusState
  <1> QED
    BY <1>1, <1>2, LifeInit, LifeNext, StepMaps, ConnectInit, ConnectNext, DeleteInvariance,
       Invariance, PTL DEF Spec, Lifecycle!Spec

\* ReleaseExclusive as the run has it: where nothing throws, nothing is ever
\* posted to mAsyncContext, and so no two threads are in a release().
THEOREM ReleasesExclusive ==
  ASSUME MaxFaults = 0, MaxRingErrors = 0, ToolstackWrites = {},
         InitialBackend \subseteq XenbusState, Absent \notin FrontendWrites,
         IsFiniteSet(Rings), RingsPerBind > 0, Cardinality(Rings) >= RingsPerBind
  PROVE  Spec => []ReleaseExclusive
  <1>1. LifeAssumption /\ ConnectAssumption
    BY DEF LifeAssumption, ConnectAssumption
  <1>2. LifeInv => asyncCalls = 0
    BY DEF LifeInv, CalmInv
  <1> QED
    BY <1>1, <1>2, OneRelease, LifeInit, LifeNext, ConnectInit, ConnectNext, DeleteInvariance,
       Invariance, PTL DEF Spec
=============================================================================
