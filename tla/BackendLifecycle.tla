-------------------------- MODULE BackendLifecycle --------------------------
(***************************************************************************)
(* What a backend promises the frontend through its "state" node, without  *)
(* threads, watches or close(): whether the backend serves ring buffers,   *)
(* and what the node says meanwhile.                                       *)
(***************************************************************************)
EXTENDS Xenbus

VARIABLES
  node,     \* the backend's "state" node
  served    \* the backend holds ring buffers of the frontend

vars == <<node, served>>

Init == node \in XenbusState /\ ~served

\* The backend warns the frontend before it lets go of anything ...
StartClosing == node \notin {"Closing", "Closed"} /\ node' = "Closing" /\ UNCHANGED served

\* ... lets go ...
Release == node = "Closing" /\ served /\ served' = FALSE /\ UNCHANGED node

\* ... and says so.
FinishClosing == node = "Closing" /\ ~served /\ node' = "Closed" /\ UNCHANGED served

Reopen ==
  /\ node = "Closed"
  /\ node' \in {"Initialising", "InitWait"}
  /\ ~served
  /\ UNCHANGED served

AwaitFrontend == node = "Initialising" /\ node' = "InitWait" /\ ~served /\ UNCHANGED served

Serve == node \in {"Initialising", "InitWait"} /\ ~served /\ served' = TRUE /\ UNCHANGED node

Connect == node \in {"Initialising", "InitWait"} /\ served /\ node' = "Connected" /\ UNCHANGED served

Next == StartClosing \/ Release \/ FinishClosing \/ Reopen \/ AwaitFrontend \/ Serve \/ Connect

Spec == Init /\ [][Next]_vars

\* What was begun is finished: a closing backend closes, a backend that serves
\* rings says that it is connected or closes.
FairSpec == Spec /\ WF_vars(Release \/ FinishClosing) /\ WF_vars(Connect)
=============================================================================
