\* Four domains in chunks of two: the list may end with a full chunk.
SPECIFICATION Spec
CONSTANTS
  MaxDomain = 3
  cDomInfoChunkSize = 2
  MaxChanges = 2
INVARIANTS TypeOK Ascending Complete RunningDoms
