------------------------- MODULE MCFrontendHandler -------------------------
(* Small instances of FrontendHandler. *)
EXTENDS FrontendHandler, FiniteSets

\* What a node holds that no handler has touched, and what a handler that died
\* may have left there.
AnyBackend == {"Initialising", "InitWait", "Connected", "Closing", "Closed"}
NewBackend == {"Initialising"}

\* xenbus_switch_state() of a frontend driver
DriverStates == {"Initialising", "Initialised", "Connected", "Closing", "Closed"}
=============================================================================
