SPECIFICATION FairSpec
CONSTANTS
  Size = 2
  IndexMod = 4
  MaxRequests = 5
  Answerers = {"event", "worker"}
INVARIANTS TypeOK NoFalseOverflow NothingStranded
PROPERTIES ImplementsChannel
