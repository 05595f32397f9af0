\* Two senders; the indices wrap; the stores become visible in program order;
\* the number of events divides the range of the indices.
SPECIFICATION FairSpec
CONSTANTS
  Senders = {s1, s2}
  NumEvents = 2
  IndexMod = 8
  StartIndex = 6
  MaxEvents = 5
  Reorder = FALSE
INVARIANTS TypeOK
PROPERTIES ImplementsQueue
