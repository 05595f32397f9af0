\* The stores may become visible in either order, as on Arm.
SPECIFICATION Spec
CONSTANTS
  Senders = {s1}
  NumEvents = 2
  IndexMod = 8
  StartIndex = 0
  MaxEvents = 3
  Reorder = TRUE
PROPERTIES NoStaleEvent
