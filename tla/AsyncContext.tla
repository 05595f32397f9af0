---------------------------- MODULE AsyncContext ----------------------------
(***************************************************************************)
(* AsyncContext: call() appends a function to a list, the context's thread *)
(* runs them one after the other, stop() ends it.  The thread holds mMutex *)
(* all the time but while it waits and while a posted function runs.  The  *)
(* function's body, between Drain and CallReturns, and the join of stop()  *)
(* belong to the module that composes this one.                            *)
(***************************************************************************)
EXTENDS Naturals, Sequences

CONSTANT Calls   \* what may be posted

VARIABLES
  mAsyncCalls, mTerminate,
  locked,        \* the thread of run() holds mMutex
  runPc,         \* where that thread is
  posted, ran    \* histories: the arguments of call(), the calls made

vars == <<mAsyncCalls, mTerminate, locked, runPc, posted, ran>>
RunPc == {"start", "test", "waiting", "drain", "call", "return", "exit"}

Init ==
  /\ mAsyncCalls = <<>> /\ mTerminate = FALSE
  /\ locked = FALSE /\ runPc = "start"
  /\ posted = <<>> /\ ran = <<>>

\* call(f), by any thread
Call(c) ==
  /\ ~locked
  /\ mAsyncCalls' = Append(mAsyncCalls, c)
  /\ posted' = Append(posted, c)
  /\ UNCHANGED <<mTerminate, locked, runPc, ran>>

\* The first half of stop(); the second joins the thread
Terminate ==
  /\ ~locked
  /\ mTerminate' = TRUE
  /\ UNCHANGED <<mAsyncCalls, locked, runPc, posted, ran>>
-----------------------------------------------------------------------------
(* run() *)

Goto(l, lock) == runPc' = l /\ locked' = lock

Lock ==
  /\ runPc = "start" /\ ~locked
  /\ Goto("test", TRUE)
  /\ UNCHANGED <<mAsyncCalls, mTerminate, posted, ran>>

\* while(!mTerminate), and the first look of wait() at its condition: a stop()
\* that comes before the thread first looks drops what is posted.
Test ==
  /\ runPc = "test"
  /\ IF mTerminate THEN Goto("exit", FALSE)
     ELSE IF mAsyncCalls # <<>> THEN Goto("drain", TRUE)
     ELSE Goto("waiting", FALSE)
  /\ UNCHANGED <<mAsyncCalls, mTerminate, posted, ran>>

Wake ==
  /\ runPc = "waiting" /\ ~locked
  /\ mTerminate \/ mAsyncCalls # <<>>
  /\ Goto("drain", TRUE)
  /\ UNCHANGED <<mAsyncCalls, mTerminate, posted, ran>>

\* Mutant: the call is made with mMutex held
DrainLocked ==
  /\ runPc = "drain"
  /\ IF mAsyncCalls = <<>> THEN Goto("test", TRUE) /\ UNCHANGED ran
     ELSE Goto("call", TRUE) /\ ran' = Append(ran, Head(mAsyncCalls))
  /\ UNCHANGED <<mAsyncCalls, mTerminate, posted>>

\* while(!mAsyncCalls.empty()) does not look at mTerminate.
Drain ==
  /\ runPc = "drain"
  /\ IF mAsyncCalls = <<>> THEN Goto("test", TRUE) /\ UNCHANGED ran
     ELSE Goto("call", FALSE) /\ ran' = Append(ran, Head(mAsyncCalls))
  /\ UNCHANGED <<mAsyncCalls, mTerminate, posted>>

\* The end of the body of the call
CallReturns ==
  /\ runPc = "call"
  /\ runPc' = "return"
  /\ UNCHANGED <<mAsyncCalls, mTerminate, locked, posted, ran>>

\* Mutant: what was posted while the call ran goes with it
PopAll ==
  /\ runPc = "return" /\ ~locked
  /\ mAsyncCalls' = <<>>
  /\ Goto("drain", TRUE)
  /\ UNCHANGED <<mTerminate, posted, ran>>

Pop ==
  /\ runPc = "return" /\ ~locked
  /\ mAsyncCalls' = Tail(mAsyncCalls)
  /\ Goto("drain", TRUE)
  /\ UNCHANGED <<mTerminate, posted, ran>>

Run == Lock \/ Test \/ Wake \/ Drain \/ Pop
-----------------------------------------------------------------------------
(* Properties *)

\* The call being made is still the head of the list.
Taken == IF runPc \in {"call", "return"} THEN Len(ran) - 1 ELSE Len(ran)

\* What is posted is what was run, in that order and once each, and then what
\* is still in the list: call() beside the thread that runs with the list
\* unlocked loses, repeats and reorders nothing.
CallsInOrder ==
  /\ Taken \in 0..Len(posted)
  /\ mAsyncCalls = SubSeq(posted, Taken + 1, Len(posted))
  /\ ran = SubSeq(posted, 1, Len(ran))
=============================================================================
