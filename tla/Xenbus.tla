------------------------------- MODULE Xenbus -------------------------------
(***************************************************************************)
(* The states of enum xenbus_state (xen/io/xenbus.h), by name, as the      *)
(* library uses them: the value of a "state" node of the Xen store, and    *)
(* the type of mBackendState and mFrontendState.                           *)
(***************************************************************************)

XenbusState ==
  {"Unknown", "Initialising", "InitWait", "Initialised", "Connected",
   "Closing", "Closed", "Reconfiguring", "Reconfigured"}

\* A node the store does not hold: checkIfExist() answers false.
Absent == "Absent"

NodeValue == XenbusState \union {Absent}
=============================================================================
