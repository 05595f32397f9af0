\* Two clients of one timer, periodic or not.
SPECIFICATION Spec
CONSTANTS
  Clients = {c1, c2}
  MaxStarts = 3
  MaxFires = 3
INVARIANTS TypeOK OneShotOnce
PROPERTIES NoCallbackOnceTerminated CallsBack StopReturns
