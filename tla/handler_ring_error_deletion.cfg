\* A ring fails while onBind() adds the next one.
SPECIFICATION Spec
CONSTANTS
  Rings = {r1, r2}
  RingsPerBind = 2
  InitialFrontend = {"Initialising"}
  InitialBackend <- NewBackend
  FrontendWrites <- DriverStates
  ToolstackWrites = {}
  MaxFrontendWrites = 2
  MaxToolstackWrites = 0
  MaxRingErrors = 1
  MaxInterrupts = 0
  MaxFaults = 0
PROPERTIES DeletedOnlyStopped
