\* Everything that may fail does, and the toolstack interferes.
SPECIFICATION FairSpec
CONSTANTS
  Rings = {r1}
  RingsPerBind = 1
  InitialFrontend = {"Initialising"}
  InitialBackend <- NewBackend
  FrontendWrites = {"Connected", "Absent"}
  ToolstackWrites = {"Closing", "Initialising", "Absent"}
  MaxFrontendWrites = 1
  MaxToolstackWrites = 1
  MaxRingErrors = 1
  MaxInterrupts = 1
  MaxFaults = 1
INVARIANTS TypeOK IdleAgreement StoppedIsClosed ConnectedIsServed
PROPERTIES DeletedOnlyStoppedUnlessFailed StopReturns
