\* The abstract lifecycle, from any state a dead backend left; nothing
\* fails, but poll() may be interrupted.
SPECIFICATION FairSpec
CONSTANTS
  Rings = {r1, r2}
  RingsPerBind = 2
  InitialFrontend = {"Initialising", "Connected"}
  InitialBackend <- AnyBackend
  FrontendWrites <- DriverStates
  ToolstackWrites = {}
  MaxFrontendWrites = 3
  MaxToolstackWrites = 0
  MaxRingErrors = 0
  MaxInterrupts = 1
  MaxFaults = 0
INVARIANTS ReleaseExclusive
PROPERTIES ImplementsLifecycle FrontendServed
