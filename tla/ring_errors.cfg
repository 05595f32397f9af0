\* Two notifications, one interrupted poll(), one error of the event thread.
SPECIFICATION RingSpec
CONSTANTS
  Closers = {"owner", "async"}
  MaxNotifies = 2
  MaxInterrupts = 1
  MaxFaults = 1
INVARIANTS RingTypeOK CallbackHasRing NothingLeaks CallsInOrder
PROPERTIES StopReturns ErrorCloses NotificationServed
