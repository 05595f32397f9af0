SPECIFICATION FairSpec
CONSTANTS
  Devices <- OneDevice
  MaxChanges = 1
  MaxStarts = 1
  MaxInterrupts = 0
  MaxFaults = 1
PROPERTY CalledForNewFrontend
