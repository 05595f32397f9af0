\* Devices come and go in one domain; one failure, one interrupted poll(), one restart.
SPECIFICATION FairSpec
CONSTANTS
  Devices <- OneDomain
  MaxChanges = 3
  MaxStarts = 2
  MaxInterrupts = 1
  MaxFaults = 1
INVARIANTS TypeOK ListedIsWatched ThreadSurvives
PROPERTIES DroppedOnlyIfGone FollowsStore StopReturns
